---- MODULE Spec2Model ----
(***************************************************************************)
(* A model of the keyed store (src/src/store.rs), the ordered log          *)
(* (src/src/stream.rs) and the command handlers that drive them            *)
(* (src/src/client.rs).                                                    *)
(*                                                                         *)
(* Every store operation takes the single store lock for its whole body,   *)
(* so one store call is one step.  The wall clock is the variable now; it  *)
(* is read by a handler in the step that runs it and advanced by Tick.     *)
(*                                                                         *)
(* The connection specification takes the calls apart: a connection's task *)
(* acquires the lock in one step and runs the body of the store call in    *)
(* the next ones, and a blocking XREAD waits on its channel between steps. *)
(***************************************************************************)
EXTENDS Integers, Sequences, FiniteSets, TLC

VARIABLES
    data,    \* DataStore.data: HashMap<String, DataValue>, a function on the keys present
    now,     \* SystemTime::now(), in milliseconds
    last,    \* the last call: [op, key, arg, ret]
    xadds,   \* history: per key, the successful XADDs since the key was last SET
    conn,    \* per connection: where its task stands in the command it runs
    chan,    \* per listener: the mpsc channel behind the Sender that is the listener
    lock,    \* the holder of DataStore.data's Mutex, None when it is free
    serial,  \* history: the mapping after the store calls so far, run one at a time
             \* in the order they acquired the lock
    sock,    \* per connection: the bytes its peer has sent, in flight and arrived unread
    boot,    \* main: where it stands between loading the snapshot and the accept loop
    repl     \* MasterConnection: where the handshake with the primary stands

cvars == <<conn, chan, lock, serial>>
evars == <<sock, boot, repl>>
vars == <<conn, now, data, last, xadds, chan, lock, serial, sock, boot, repl>>

----------------------------------------------------------------------------
(* Bounds of the model *)

MaxTime == 2        \* the clock runs from 0 to MaxTime
MaxPx == 1          \* SET ... PX n is called with n in 0..MaxPx
MaxBlocks == 1      \* a connection runs at most MaxBlocks blocking XREADs
MaxConnTime == 1    \* the clock of the connection specification runs from 0 to MaxConnTime
MaxLogLen == 2      \* the log specification keeps a log to at most MaxLogLen items
RangeMaxEpoch == 3  \* entry IDs of the range specification have epochs 1..RangeMaxEpoch

Keys == {"k1", "k2"}
Values == {"v1", "v2"}
Listeners == {"l1", "l2"}
Conns == {"c1", "c2"}

\* The Sender of the channel that connection c makes in its n-th blocking XREAD.
Tx(c, n) == c \o "." \o ToString(n)
Senders == {Tx(c, n) : c \in Conns, n \in 1..MaxBlocks}

\* A connection between two commands: run_int is in read_command.
IdleConn == [pc |-> "idle", blocks |-> 0]

----------------------------------------------------------------------------
(* Option and Result *)

None == [some |-> FALSE]
Some(v) == [some |-> TRUE, val |-> v]
Ok(v) == [ok |-> TRUE, val |-> v]
Err(e) == [ok |-> FALSE, err |-> e]

EmptyMap == [x \in {} |-> 0]
MapInsert(m, k, v) == [x \in (DOMAIN m) \cup {k} |-> IF x = k THEN v ELSE m[x]]

----------------------------------------------------------------------------
(* Entry IDs: struct ItemId(u64, u64) with derived ordering *)

ItemId_new(epoch, seq) == <<epoch, seq>>

\* The ordering with the two components compared in the wrong order.
ItemId_lt_SeqMajor(a, b) == a[2] < b[2] \/ (a[2] = b[2] /\ a[1] < b[1])

\* #[derive(PartialOrd, Ord)] on a tuple struct: lexicographic, field 0 first.
ItemId_lt(a, b) == a[1] < b[1] \/ (a[1] = b[1] /\ a[2] < b[2])

ItemId_le(a, b) == a = b \/ ItemId_lt(a, b)

Digits == <<"0", "1", "2", "3", "4", "5", "6", "7", "8", "9">>

\* u64's Display: the decimal digits, most significant first.
RECURSIVE u64_to_string(_)
u64_to_string(n) ==
    IF n < 10 THEN <<Digits[n + 1]>>
    ELSE u64_to_string(n \div 10) \o <<Digits[(n % 10) + 1]>>

\* impl Display for ItemId: "{}-{}".
ItemId_to_string(id) == u64_to_string(id[1]) \o <<"-">> \o u64_to_string(id[2])

\* split('-'): the parts of a text between the separators; always at least one part.
RECURSIVE str_split(_, _)
str_split(text, sep) ==
    IF \A i \in 1..Len(text) : text[i] # sep THEN <<text>>
    ELSE LET i == CHOOSE j \in 1..Len(text) :
                      text[j] = sep /\ \A h \in 1..(j - 1) : text[h] # sep
         IN <<SubSeq(text, 1, i - 1)>> \o str_split(SubSeq(text, i + 1, Len(text)), sep)

IsDigit(c) == \E i \in 1..10 : Digits[i] = c
DigitVal(c) == (CHOOSE i \in 1..10 : Digits[i] = c) - 1

RECURSIVE DecimalValue(_)
DecimalValue(ds) ==
    IF Len(ds) = 0 THEN 0
    ELSE DecimalValue(SubSeq(ds, 1, Len(ds) - 1)) * 10 + DigitVal(ds[Len(ds)])

\* u64::MAX, 2^64 - 1, as its decimal digits.
U64MaxDigits == <<"1", "8", "4", "4", "6", "7", "4", "4", "0", "7",
                  "3", "7", "0", "9", "5", "5", "1", "6", "1", "5">>

RECURSIVE StripZeros(_)
StripZeros(ds) == IF Len(ds) > 1 /\ ds[1] = "0" THEN StripZeros(Tail(ds)) ELSE ds

\* The accumulation digit by digit passes u64::MAX (IntErrorKind::PosOverflow): the
\* digits without their leading zeros are more than 20, or 20 and above u64::MAX's.
u64_overflows(ds) ==
    LET n == StripZeros(ds) IN
    \/ Len(n) > Len(U64MaxDigits)
    \/ /\ Len(n) = Len(U64MaxDigits)
       /\ \E i \in 1..Len(n) :
              /\ DigitVal(n[i]) > DigitVal(U64MaxDigits[i])
              /\ \A h \in 1..(i - 1) : n[h] = U64MaxDigits[h]

\* str::parse::<u64>(): an optional '+', then one or more decimal digits whose value
\* fits 64 bits.
u64_parse(text) ==
    LET ds == IF Len(text) > 0 /\ text[1] = "+" THEN Tail(text) ELSE text IN
    IF Len(ds) > 0 /\ (\A i \in 1..Len(ds) : IsDigit(ds[i])) /\ ~u64_overflows(ds)
    THEN Ok(DecimalValue(ds))
    ELSE Err([kind |-> "NotANumber", text |-> text])

\* ItemId::try_from that looks at the first two parts only.
ItemId_try_from_TwoParts(text) ==
    LET parts == str_split(text, "-") IN
    IF Len(parts) < 2 THEN Err([kind |-> "MissingDash"])
    ELSE LET timestamp == u64_parse(parts[1])
             counter == u64_parse(parts[2])
         IN IF ~timestamp.ok THEN timestamp
            ELSE IF ~counter.ok THEN counter
            ELSE Ok(ItemId_new(timestamp.val, counter.val))

\* impl TryFrom<&str> for ItemId
ItemId_try_from(text) ==
    LET parts == str_split(text, "-") IN
    IF Len(parts) < 2 THEN Err([kind |-> "MissingDash"])
    ELSE IF Len(parts) > 2 THEN Err([kind |-> "TooManyDashes"])
    ELSE LET timestamp == u64_parse(parts[1])
             counter == u64_parse(parts[2])
         IN IF ~timestamp.ok THEN timestamp
            ELSE IF ~counter.ok THEN counter
            ELSE Ok(ItemId_new(timestamp.val, counter.val))

----------------------------------------------------------------------------
(* The ordered log: struct Stream { items: BTreeMap<ItemId, ItemData> } *)

\* Stream::new: no items; no listener is registered on a new log.
Stream_new == [kind |-> "stream", items |-> EmptyMap, listeners |-> {}]

\* BTreeMap::last_key_value: the greatest key in the map's order.
BTreeMap_last_key(items) ==
    CHOOSE k \in DOMAIN items : \A j \in DOMAIN items : ItemId_le(j, k)

\* The keys of a BTreeMap in iteration order.
RECURSIVE BTreeMap_keys(_)
BTreeMap_keys(ids) ==
    IF ids = {} THEN <<>>
    ELSE LET m == CHOOSE k \in ids : \A j \in ids : ItemId_le(k, j)
         IN <<m>> \o BTreeMap_keys(ids \ {m})

\* Stream::insert that stores the item before it compares the ID.
Stream_insert_StoreFirst(s, id, payload) ==
    IF DOMAIN s.items # {} /\ ItemId_le(id, BTreeMap_last_key(s.items))
    THEN [stream |-> [s EXCEPT !.items = MapInsert(s.items, id, payload)],
          ret |-> Err([kind |-> "IdIsNotGreaterThanHighestStored",
                       top |-> BTreeMap_last_key(s.items)])]
    ELSE [stream |-> [s EXCEPT !.items = MapInsert(s.items, id, payload)],
          ret |-> Ok(id)]

\* Stream::insert that rejects only an ID strictly below the top item.
Stream_insert_AcceptEqual(s, id, payload) ==
    IF DOMAIN s.items # {} /\ ItemId_lt(id, BTreeMap_last_key(s.items))
    THEN [stream |-> s,
          ret |-> Err([kind |-> "IdIsNotGreaterThanHighestStored",
                       top |-> BTreeMap_last_key(s.items)])]
    ELSE [stream |-> [s EXCEPT !.items = MapInsert(s.items, id, payload)],
          ret |-> Ok(id)]

\* Stream::insert that stores any ID, wherever it falls in the log.
Stream_insert_Unordered(s, id, payload) ==
    [stream |-> [s EXCEPT !.items = MapInsert(s.items, id, payload)], ret |-> Ok(id)]

\* Stream::insert with an explicit ID: rejected when the last key is >= the ID
\* (an empty log has no last key and rejects nothing), stored otherwise.
Stream_insert(s, id, payload) ==
    IF DOMAIN s.items # {} /\ ItemId_le(id, BTreeMap_last_key(s.items))
    THEN [stream |-> s,
          ret |-> Err([kind |-> "IdIsNotGreaterThanHighestStored",
                       top |-> BTreeMap_last_key(s.items)])]
    ELSE [stream |-> [s EXCEPT !.items = MapInsert(s.items, id, payload)],
          ret |-> Ok(id)]

\* A panic: the task of the connection unwinds and writes no reply.
Panic == [type |-> "Panic"]

\* Stream::insert without an ID: `todo!("Generate a unuque id")` panics before anything
\* is stored.
Stream_insert_none(s, payload) == [stream |-> s, ret |-> Panic]

\* Stream::notify_on_insert: the listener joins the log's registered listeners.
Stream_notify_on_insert(s, listener) == [s EXCEPT !.listeners = @ \cup {listener}]

\* A stored item is handed to every registered listener, and each is dropped: one-shot.
Stream_take_listeners(s) == [s EXCEPT !.listeners = {}]

\* mpsc::channel(1): the buffer of a listener's channel holds one message.
ChannelCapacity == 1

\* A channel whose Receiver is gone (or was never made): a send to it is lost.
ClosedChan == [open |-> FALSE, buf |-> <<>>]

\* mpsc::channel(1) as handle_xread makes it: open and empty.
OpenChan == [open |-> TRUE, buf |-> <<>>]

\* A send that reaches the buffer of a channel whose Receiver is gone.
Sender_send_ToClosed(ch, msg) ==
    IF Len(ch.buf) < ChannelCapacity
    THEN [ch EXCEPT !.buf = Append(@, msg)] ELSE ch

\* A send of the inserted item to one listener: buffered when the Receiver lives and
\* the buffer has room, lost otherwise; never an error of the insertion.
Sender_send(ch, msg) ==
    IF ch.open /\ Len(ch.buf) < ChannelCapacity
    THEN [ch EXCEPT !.buf = Append(@, msg)] ELSE ch

\* The stored item (key, id, data) is sent to every listener that was registered.
Stream_deliver(ch, listeners, msg) ==
    [l \in DOMAIN ch |-> IF l \in listeners THEN Sender_send(ch[l], msg) ELSE ch[l]]

\* A range bound: std::ops::Bound<ItemId>
Unbounded == [bound |-> "Unbounded"]
Included(id) == [bound |-> "Included", id |-> id]
Excluded(id) == [bound |-> "Excluded", id |-> id]

AboveLower(id, start) ==
    CASE start.bound = "Unbounded" -> TRUE
      [] start.bound = "Included"  -> ItemId_le(start.id, id)
      [] start.bound = "Excluded"  -> ItemId_lt(start.id, id)

BelowUpper(id, end) ==
    CASE end.bound = "Unbounded" -> TRUE
      [] end.bound = "Included"  -> ItemId_le(id, end.id)
      [] end.bound = "Excluded"  -> ItemId_lt(id, end.id)

\* Stream::range: the IDs of the items within both bounds, ascending.
Stream_range(s, start, end) ==
    BTreeMap_keys({id \in DOMAIN s.items : AboveLower(id, start) /\ BelowUpper(id, end)})

----------------------------------------------------------------------------
(* The key mapping and expiry *)

StringValue(s) == [kind |-> "string", str |-> s]

DataValue(value, expires_at) == [value |-> value, expires_at |-> expires_at]

\* The match arm `Some(expires_at) if expires_at <= now => None` with < for <=.
IsExpired_Strict(dv, t) == dv.expires_at.some /\ dv.expires_at.val < t

\* The match arm `Some(expires_at) if expires_at <= now => None` of set and get_ref.
IsExpired(dv, t) == dv.expires_at.some /\ dv.expires_at.val <= t

\* set that reports the previous value without looking at its expiry.
DataStore_set_NoExpiryCheck(d, t, key, value, expires_at) ==
    [data |-> MapInsert(d, key, DataValue(value, expires_at)),
     ret  |-> IF key \in DOMAIN d THEN Some(d[key].value) ELSE None]

\* DataStore::set that leaves a key alone when it holds a log.
DataStore_set_KeepLog(d, t, key, value, expires_at) ==
    IF key \in DOMAIN d /\ d[key].value.kind = "stream"
    THEN [data |-> d, ret |-> Some(d[key].value)]
    ELSE [data |-> MapInsert(d, key, DataValue(value, expires_at)),
          ret  |-> IF key \in DOMAIN d /\ ~IsExpired(d[key], t)
                   THEN Some(d[key].value) ELSE None]

\* DataStore::set: HashMap::insert returns the previous entry, and_then drops it when expired.
DataStore_set(d, t, key, value, expires_at) ==
    [data |-> MapInsert(d, key, DataValue(value, expires_at)),
     ret  |-> IF key \in DOMAIN d /\ ~IsExpired(d[key], t)
              THEN Some(d[key].value) ELSE None]

\* DataStore::get_ref: the live value the closure is applied to, None on a missing or
\* expired key; the caller applies its closure to it.
DataStore_get_ref(d, t, key) ==
    IF key \in DOMAIN d /\ ~IsExpired(d[key], t)
    THEN Some(d[key].value) ELSE None

\* get_ref that removes the entry it finds expired.
DataStore_get_ref_data_Evict(d, t, key) ==
    IF key \in DOMAIN d /\ IsExpired(d[key], t)
    THEN [k \in (DOMAIN d) \ {key} |-> d[k]] ELSE d

\* The mapping after DataStore::get_ref: the guard is used for HashMap::get only and
\* the closure receives a shared reference, so nothing is written.
DataStore_get_ref_data(d, t, key) == d

\* The mapping after DataStore::keys: HashMap::keys() is read and cloned.
DataStore_keys_data(d) == d

Clone(v) == v

\* DataStore::get
DataStore_get(d, t, key) ==
    LET got == DataStore_get_ref(d, t, key) IN
    IF got.some THEN Some(Clone(got.val)) ELSE None

\* DataStore::insert_stream_item that turns a text value into a log instead of failing.
DataStore_insert_stream_item_Coerce(d, t, key, id, payload) ==
    LET d1 == IF key \in DOMAIN d /\ d[key].value.kind = "stream" THEN d
              ELSE MapInsert(d, key, DataValue(Stream_new, None))
        v == d1[key].value
        r == Stream_insert(v, id, payload)
    IN  IF r.ret.ok
        THEN [data |-> [d1 EXCEPT ![key].value = Stream_take_listeners(r.stream)],
              notified |-> v.listeners, ret |-> r.ret]
        ELSE [data |-> [d1 EXCEPT ![key].value = r.stream],
              notified |-> {}, ret |-> r.ret]

\* DataStore::insert_stream_item: entry(key).or_insert_with(new log, no expiry), then
\* as_stream_mut().ok_or(ExpectedOtherType), then Stream::insert.  The entry's expiry
\* is not read (t is the clock, unused).  A stored item is delivered to the listeners.
DataStore_insert_stream_item(d, t, key, id, payload) ==
    LET d1 == IF key \in DOMAIN d THEN d
              ELSE MapInsert(d, key, DataValue(Stream_new, None))
        v == d1[key].value
    IN  IF v.kind # "stream"
        THEN [data |-> d1, notified |-> {},
              ret |-> Err([kind |-> "ExpectedOtherType", expected |-> "stream"])]
        ELSE LET r == Stream_insert(v, id, payload) IN
             IF r.ret.ok
             THEN [data |-> [d1 EXCEPT ![key].value = Stream_take_listeners(r.stream)],
                   notified |-> v.listeners, ret |-> r.ret]
             ELSE [data |-> [d1 EXCEPT ![key].value = r.stream],
                   notified |-> {}, ret |-> r.ret]

\* notify_on_stream_insert that registers the listener on every log of the mapping.
DataStore_notify_on_stream_insert_AllLogs(d, t, key, listener) ==
    LET d1 == IF key \in DOMAIN d THEN d
              ELSE MapInsert(d, key, DataValue(Stream_new, None))
        v == d1[key].value
    IN  IF v.kind # "stream"
        THEN [data |-> d1,
              ret |-> Err([kind |-> "ExpectedOtherType", expected |-> "stream"])]
        ELSE [data |-> [k \in DOMAIN d1 |->
                          IF d1[k].value.kind = "stream"
                          THEN [d1[k] EXCEPT !.value = Stream_notify_on_insert(@, listener)]
                          ELSE d1[k]],
              ret |-> Ok("unit")]

\* DataStore::notify_on_stream_insert: the same entry rule, then Stream::notify_on_insert.
DataStore_notify_on_stream_insert(d, t, key, listener) ==
    LET d1 == IF key \in DOMAIN d THEN d
              ELSE MapInsert(d, key, DataValue(Stream_new, None))
        v == d1[key].value
    IN  IF v.kind # "stream"
        THEN [data |-> d1,
              ret |-> Err([kind |-> "ExpectedOtherType", expected |-> "stream"])]
        ELSE [data |-> [d1 EXCEPT ![key].value = Stream_notify_on_insert(v, listener)],
              ret |-> Ok("unit")]

\* DataStore::keys that lists only the keys whose entry has not expired.
DataStore_keys_Live(d) == {k \in DOMAIN d : ~IsExpired(d[k], now)}

\* DataStore::keys
DataStore_keys(d) == DOMAIN d

----------------------------------------------------------------------------
(* Replies: enum resp::Type *)

SimpleString(s) == [type |-> "SimpleString", str |-> s]
BulkString(s) == [type |-> "BulkString", str |-> s]
NullString == [type |-> "NullString"]
Array(a) == [type |-> "Array", items |-> a]
\* run_int writes a non-fatal error of a command as one simple error.
SimpleError(e) == [type |-> "SimpleError", err |-> e]

\* The field array of an item: each (name, value) of the map in its iteration order.
RECURSIVE fields_array(_)
fields_array(payload) ==
    IF Len(payload) = 0 THEN <<>>
    ELSE <<BulkString(payload[1][1]), BulkString(payload[1][2])>>
         \o fields_array(Tail(payload))

\* The conversion of an item that keeps only the first field of the map.
Item_into_Type_FirstFieldOnly(id, payload) ==
    Array(<<BulkString(ItemId_to_string(id)),
            Array(fields_array(SubSeq(payload, 1, 1)))>>)

\* impl From<stream::Item> for Type: [id as text, [name, value, ...]]
Item_into_Type(id, payload) ==
    Array(<<BulkString(ItemId_to_string(id)), Array(fields_array(payload))>>)

----------------------------------------------------------------------------
(* Command handlers of a connection *)

\* The HashMap built by `items.insert(key, value)` over the argument pairs, as a
\* function; None when the last name has no value (MissingArgument).
RECURSIVE xadd_items(_, _)
xadd_items(args, acc) ==
    IF Len(args) = 0 THEN Some(acc)
    ELSE IF Len(args) = 1 THEN None
    ELSE xadd_items(SubSeq(args, 3, Len(args)), MapInsert(acc, args[1], args[2]))

\* The orders in which a HashMap may iterate: every arrangement of its entries.
HashMap_iter_orders(m) ==
    LET n == Cardinality(DOMAIN m) IN
    {[i \in 1..n |-> <<f[i], m[f[i]]>>] :
        f \in {g \in [1..n -> DOMAIN m] : \A i, j \in 1..n : i # j => g[i] # g[j]}}

\* handle_xrange reading only the lower bound.
xrange_bounds_NoUpper(start, end) ==
    LET s == IF start = <<"-">> THEN Ok(Unbounded)
             ELSE LET p == ItemId_try_from(start) IN
                  IF p.ok THEN Ok(Included(p.val)) ELSE p
    IN  IF ~s.ok THEN s ELSE Ok([start |-> s.val, end |-> Unbounded])

\* handle_xrange: "-" and "+" are unbounded, any other text an inclusive ID.
xrange_bounds(start, end) ==
    LET s == IF start = <<"-">> THEN Ok(Unbounded)
             ELSE LET p == ItemId_try_from(start) IN
                  IF p.ok THEN Ok(Included(p.val)) ELSE p
        e == IF end = <<"+">> THEN Ok(Unbounded)
             ELSE LET p == ItemId_try_from(end) IN
                  IF p.ok THEN Ok(Included(p.val)) ELSE p
    IN  IF ~s.ok THEN s
        ELSE IF ~e.ok THEN e
        ELSE Ok([start |-> s.val, end |-> e.val])

\* The projection both range commands hand to get_ref: a log's items in the range.
range_reply(value, start, end) ==
    IF value.kind # "stream"
    THEN Err([kind |-> "ExpectedOtherType", expected |-> "stream"])
    ELSE LET range == Stream_range(value, start, end) IN
         Ok(Array([i \in 1..Len(range) |->
                      Item_into_Type(range[i], value.items[range[i]])]))

\* The cursor bound of XREAD taken as inclusive.
xread_start_Included(start) == Included(start)

\* handle_xread: Bound::Excluded(*start), everything strictly after the cursor.
xread_start(start) == Excluded(start)

\* handle_xread's parse_item_id: "$" is ItemId::new(now, 0), else the parsed ID.
xread_parse_item_id(value, t) ==
    IF value = <<"$">> THEN Ok(ItemId_new(t, 0)) ELSE ItemId_try_from(value)

\* handle_xread's loop over the streams: per key the non-empty range after the cursor,
\* `[key, NullString]` for a key get_ref reports absent; the first error ends the command.
RECURSIVE xread_collect(_, _, _, _)
xread_collect(d, t, streams, resp) ==
    IF Len(streams) = 0 THEN Ok(resp)
    ELSE LET key == streams[1][1]
             start == streams[1][2]
             got == DataStore_get_ref(d, t, key)
             values == IF got.some
                       THEN range_reply(got.val, xread_start(start), Unbounded)
                       ELSE Ok(NullString)
         IN  IF ~values.ok THEN values
             ELSE IF values.val.type = "Array" /\ Len(values.val.items) = 0
             THEN xread_collect(d, t, Tail(streams), resp)
             ELSE xread_collect(d, t, Tail(streams),
                                Append(resp, Array(<<BulkString(key), values.val>>)))

----------------------------------------------------------------------------
(* Steps *)

Call(op, key, arg, ret, notified) ==
    [op |-> op, key |-> key, arg |-> arg, ret |-> ret, notified |-> notified]

\* Time passes.
Tick ==
    /\ now < MaxTime
    /\ now' = now + 1
    /\ last' = Call("tick", "", None, None, {})
    /\ UNCHANGED <<data, xadds, cvars>>
    /\ UNCHANGED evars

\* A call of DataStore::set(key, Value::String(value), expires_at).
Set(key, value, expires_at) ==
    LET r == DataStore_set(data, now, key, StringValue(value), expires_at) IN
    /\ data' = r.data
    /\ last' = Call("set", key,
                     [value |-> value, expires_at |-> expires_at,
                      prev |-> IF key \in DOMAIN data THEN Some(data[key]) ELSE None],
                     r.ret, {})
    /\ xadds' = [xadds EXCEPT ![key] = <<>>]
    /\ UNCHANGED <<now, cvars>>
    /\ UNCHANGED evars

\* A call of DataStore::get(key).
Get(key) ==
    /\ data' = DataStore_get_ref_data(data, now, key)
    /\ last' = Call("get", key, None, DataStore_get(data, now, key), {})
    /\ UNCHANGED <<now, xadds, cvars>>
    /\ UNCHANGED evars

\* A call of DataStore::keys().
ListKeys ==
    /\ data' = DataStore_keys_data(data)
    /\ last' = Call("keys", "", None, DataStore_keys(data), {})
    /\ UNCHANGED <<now, xadds, cvars>>
    /\ UNCHANGED evars

\* SET key value [PX n]: handle_set.  px is None without the option.
HandleSet(key, value, px) ==
    LET expires_at == IF px.some THEN Some(now + px.val) ELSE None
        r == DataStore_set(data, now, key, StringValue(value), expires_at)
    IN
    /\ data' = r.data
    /\ last' = Call("SET", key, [value |-> value, px |-> px], SimpleString("OK"), {})
    /\ xadds' = [xadds EXCEPT ![key] = <<>>]
    /\ UNCHANGED <<now, cvars>>
    /\ UNCHANGED evars

\* GET key: handle_get.
HandleGet(key) ==
    LET got == DataStore_get(data, now, key)
        reply == IF ~got.some THEN NullString
                 ELSE IF got.val.kind = "string" THEN BulkString(got.val.str)
                 ELSE SimpleError([kind |-> "Unimplemented"])
    IN
    /\ data' = DataStore_get_ref_data(data, now, key)
    /\ last' = Call("GET", key, None, reply, {})
    /\ UNCHANGED <<now, xadds, cvars>>
    /\ UNCHANGED evars

\* XADD key id field value ...: handle_xadd with an explicit ID.
HandleXadd(key, id, fields) ==
    LET items == xadd_items(fields, EmptyMap)
        parsed == ItemId_try_from(id)
        arg == [id |-> id, fields |-> fields]
    IN
    IF ~items.some
    THEN /\ last' = Call("XADD", key, arg,
                         SimpleError([kind |-> "MissingArgument", name |-> "value"]), {})
         /\ UNCHANGED <<data, now, xadds, cvars, evars>>
    ELSE IF ~parsed.ok
    THEN /\ last' = Call("XADD", key, arg, SimpleError(parsed.err), {})
         /\ UNCHANGED <<data, now, xadds, cvars, evars>>
    ELSE \E payload \in HashMap_iter_orders(items.val) :
         LET r == DataStore_insert_stream_item(data, now, key, parsed.val, payload) IN
         /\ data' = r.data
         /\ last' = Call("XADD", key, arg,
                         IF r.ret.ok THEN BulkString(ItemId_to_string(r.ret.val))
                         ELSE SimpleError(r.ret.err),
                         r.notified)
         /\ xadds' = IF r.ret.ok
                     THEN [xadds EXCEPT ![key] = Append(@, [id |-> id, fields |-> fields])]
                     ELSE xadds
         /\ chan' = IF r.ret.ok
                    THEN Stream_deliver(chan, r.notified, <<key, r.ret.val, payload>>)
                    ELSE chan
         /\ UNCHANGED <<now, conn, lock, serial, evars>>

\* XADD key * field value ... where the handler passes no ID (`id == "*"` gives None):
\* insert_stream_item finds or creates the entry, then Stream::insert(None, ..) panics.
HandleXaddNone(key, fields) ==
    LET items == xadd_items(fields, EmptyMap)
        arg == [id |-> <<"*">>, fields |-> fields]
        d1 == IF key \in DOMAIN data THEN data
              ELSE MapInsert(data, key, DataValue(Stream_new, None))
    IN
    IF ~items.some
    THEN /\ last' = Call("XADD", key, arg,
                         SimpleError([kind |-> "MissingArgument", name |-> "value"]), {})
         /\ UNCHANGED <<data, now, xadds, cvars, evars>>
    ELSE IF d1[key].value.kind # "stream"
    THEN /\ last' = Call("XADD", key, arg,
                         SimpleError([kind |-> "ExpectedOtherType", expected |-> "stream"]),
                         {})
         /\ UNCHANGED <<data, now, xadds, cvars, evars>>
    ELSE \E payload \in HashMap_iter_orders(items.val) :
         /\ data' = [d1 EXCEPT ![key].value = Stream_insert_none(@, payload).stream]
         /\ last' = Call("XADD", key, arg, Stream_insert_none(d1[key].value, payload).ret, {})
         /\ UNCHANGED <<now, xadds, cvars, evars>>

\* A call of DataStore::notify_on_stream_insert(key, listener).
NotifyOnStreamInsert(key, listener) ==
    LET r == DataStore_notify_on_stream_insert(data, now, key, listener) IN
    /\ data' = r.data
    /\ last' = Call("notify", key, [listener |-> listener], r.ret, {})
    /\ UNCHANGED <<now, xadds, cvars>>
    /\ UNCHANGED evars

\* XRANGE key start end: handle_xrange.
HandleXrange(key, start, end) ==
    LET b == xrange_bounds(start, end)
        got == DataStore_get_ref(data, now, key)
        res == IF got.some THEN range_reply(got.val, b.val.start, b.val.end)
               ELSE Ok(NullString)
        reply == IF ~b.ok THEN SimpleError(b.err)
                 ELSE IF res.ok THEN res.val ELSE SimpleError(res.err)
    IN
    /\ last' = Call("XRANGE", key, [start |-> start, end |-> end], reply, {})
    /\ UNCHANGED <<data, now, xadds, cvars>>
    /\ UNCHANGED evars

\* XREAD STREAMS key id, without BLOCK: handle_xread.
HandleXread(key, id) ==
    LET start == xread_parse_item_id(id, now)
        resp == xread_collect(data, now, <<<<key, start.val>>>>, <<>>)
        reply == IF ~start.ok THEN SimpleError(start.err)
                 ELSE IF ~resp.ok THEN SimpleError(resp.err)
                 ELSE IF Len(resp.val) = 0 THEN NullString
                 ELSE Array(resp.val)
    IN
    /\ last' = Call("XREAD", key, [id |-> id], reply, {})
    /\ UNCHANGED <<data, now, xadds, cvars>>
    /\ UNCHANGED evars

----------------------------------------------------------------------------
(* The store specification: text values with expiry, and logs of at most two items *)

\* A connection whose peer has sent nothing yet: the bytes on their way, the bytes
\* received and not read, whether the peer has closed, and (history) the frames the
\* peer wrote and what the reads of the socket returned.
NoBytes == [wire |-> <<>>, bytes |-> <<>>, eof |-> FALSE, sent |-> <<>>, got |-> <<>>]

\* main in its accept loop, with no snapshot configured: every connection of the
\* model has been accepted.
Serving == [pc |-> "accept", load |-> None, accepted |-> Conns]

\* No connection to a primary has been made.
NoHandshake == [pc |-> "off", sent |-> <<>>]

Init ==
    /\ data = EmptyMap
    /\ now = 0
    /\ last = Call("init", "", None, None, {})
    /\ xadds = [k \in Keys |-> <<>>]
    /\ conn = [c \in Conns |-> IdleConn]
    /\ chan = [l \in Listeners \cup Senders |-> ClosedChan]
    /\ lock = None
    /\ serial = [data |-> EmptyMap, ret |-> None]
    /\ sock = [c \in Conns |-> NoBytes]
    /\ boot = Serving
    /\ repl = NoHandshake

Expiries == {None} \cup {Some(t) : t \in 0..(MaxTime + MaxPx)}
PxArgs == {None} \cup {Some(n) : n \in 0..MaxPx}
StoreIds == {ItemId_new(0, 1), ItemId_new(1, 0)}
StoreIdTexts == {ItemId_to_string(id) : id \in StoreIds}
StoreFields == {<<"a", "x">>}
StoreListeners == {"l1"}

Next ==
    \/ Tick
    \/ \E k \in Keys, v \in Values, e \in Expiries : Set(k, v, e)
    \/ \E k \in Keys : Get(k)
    \/ ListKeys
    \/ \E k \in Keys, v \in Values, px \in PxArgs : HandleSet(k, v, px)
    \/ \E k \in Keys : HandleGet(k)
    \/ \E k \in Keys, id \in StoreIdTexts, f \in StoreFields : HandleXadd(k, id, f)
    \/ \E k \in Keys, l \in StoreListeners : NotifyOnStreamInsert(k, l)
    \/ \E k \in Keys : HandleXrange(k, <<"-">>, <<"+">>)
    \/ \E k \in Keys : HandleXread(k, <<"$">>)

Spec == Init /\ [][Next]_vars

----------------------------------------------------------------------------
(* The log specification: one key, entry IDs (0..1, 0..1), several field lists *)

LogKeys == {"k1"}
LogEpochs == {0, 1}
LogSeqs == {0, 1}
LogIds == {ItemId_new(e, q) : e \in LogEpochs, q \in LogSeqs}
LogIdTexts == {ItemId_to_string(id) : id \in LogIds}
LogFields == {<<"a", "x">>, <<"a", "x", "a", "y">>, <<"a", "x", "b", "y">>}
LogAutoIdTexts == {u64_to_string(e) \o <<"-", "*">> : e \in LogEpochs} \cup {<<"*">>}

LogLen(d, key) ==
    IF key \in DOMAIN d /\ d[key].value.kind = "stream"
    THEN Cardinality(DOMAIN d[key].value.items) ELSE 0

NextLog ==
    \/ \E k \in LogKeys, id \in LogIdTexts \cup LogAutoIdTexts, f \in LogFields :
           HandleXadd(k, id, f) /\ LogLen(data', k) <= MaxLogLen
    \/ \E k \in LogKeys, f \in LogFields : HandleXaddNone(k, f)
    \/ \E k \in LogKeys, l \in Listeners : NotifyOnStreamInsert(k, l)
    \/ \E k \in LogKeys : HandleSet(k, "v1", None)
    \/ \E k \in LogKeys : HandleXrange(k, <<"-">>, <<"+">>)

SpecLog == Init /\ [][NextLog]_vars

----------------------------------------------------------------------------
(* The range specification: one log over the IDs (1..RangeMaxEpoch, 1..2), queried *)
(* with bounds at 1-2 and 2-1 *)

RangeKey == "k1"
RangeSeqs == {1, 2}
RangeIds == {ItemId_new(e, q) : e \in 1..RangeMaxEpoch, q \in RangeSeqs}
RangeIdTexts == {ItemId_to_string(id) : id \in RangeIds}
RangeProbes == {ItemId_new(1, 2), ItemId_new(2, 1)}
RangeProbeTexts == {ItemId_to_string(id) : id \in RangeProbes}
RangeBounds == {Unbounded} \cup {Included(id) : id \in RangeProbes}
                   \cup {Excluded(id) : id \in RangeProbes}

\* A call of DataStore::get_ref(key, |v| v.as_stream().range(start, end)) with any bounds.
GetRefRange(key, start, end) ==
    LET v == DataStore_get_ref(data, now, key)
        got == IF v.some THEN Some(range_reply(v.val, start, end)) ELSE None
    IN
    /\ last' = Call("range", key, [start |-> start, end |-> end], got, {})
    /\ UNCHANGED <<data, now, xadds, cvars>>
    /\ UNCHANGED evars

NextRange ==
    \/ \E id \in RangeIdTexts : HandleXadd(RangeKey, id, <<"a", "x">>)
    \/ \E s \in RangeProbeTexts \cup {<<"-">>}, e \in RangeProbeTexts \cup {<<"+">>} :
           HandleXrange(RangeKey, s, e)
    \/ \E id \in RangeProbeTexts : HandleXread(RangeKey, id)
    \/ \E s \in RangeBounds, e \in RangeBounds : GetRefRange(RangeKey, s, e)

SpecRange == Init /\ [][NextRange]_vars

----------------------------------------------------------------------------
(* The notification specification: two logs and two listeners whose        *)
(* channels are open, each read by its receiver                            *)

InitNotify ==
    /\ data = EmptyMap
    /\ now = 0
    /\ last = Call("init", "", None, None, {})
    /\ xadds = [k \in Keys |-> <<>>]
    /\ conn = [c \in Conns |-> IdleConn]
    /\ chan = [l \in Listeners \cup Senders |->
                 IF l \in Listeners THEN OpenChan ELSE ClosedChan]
    /\ lock = None
    /\ serial = [data |-> EmptyMap, ret |-> None]
    /\ sock = [c \in Conns |-> NoBytes]
    /\ boot = Serving
    /\ repl = NoHandshake

\* rx.recv() of a listener's receiver takes the message out of the channel.
Recv(listener) ==
    /\ Len(chan[listener].buf) > 0
    /\ chan' = [chan EXCEPT ![listener].buf = Tail(@)]
    /\ last' = Call("recv", "", [listener |-> listener], Some(Head(chan[listener].buf)), {})
    /\ UNCHANGED <<data, now, xadds, conn, lock, serial>>
    /\ UNCHANGED evars

NotifyIdTexts == {ItemId_to_string(ItemId_new(0, 1)), ItemId_to_string(ItemId_new(0, 2))}

NextNotify ==
    \/ \E k \in Keys, id \in NotifyIdTexts : HandleXadd(k, id, <<"a", "x">>)
    \/ \E k \in Keys, l \in Listeners : NotifyOnStreamInsert(k, l)
    \/ \E l \in Listeners : Recv(l)
    \/ HandleSet("k2", "v1", None)

SpecNotify == InitNotify /\ [][NextNotify]_vars

----------------------------------------------------------------------------
(* Connections: every client has a task that runs its commands one after    *)
(* another; a store call waits for DataStore.data's Mutex, runs while it    *)
(* holds the guard and drops the guard at the end of the call's statement   *)

\* entry(key).or_insert_with(new log, no expiry) of insert_stream_item and of
\* notify_on_stream_insert.
HashMap_entry_or_insert_stream(d, key) ==
    IF key \in DOMAIN d THEN d ELSE MapInsert(d, key, DataValue(Stream_new, None))

\* A store call as one uninterrupted run on the mapping d: the mapping it leaves, what
\* it returns and the listeners it sends to.  k is the caller: k.call names the method,
\* k.cmd holds the arguments, k.t the clock the method sampled before it took the lock.
DataStore_call(d, k) ==
    CASE k.call = "set" ->
           LET r == DataStore_set(d, k.t, k.cmd.key, StringValue(k.cmd.value), None)
           IN  [data |-> r.data, ret |-> r.ret, notified |-> {}]
      [] k.call = "get" ->
           [data |-> d, ret |-> DataStore_get(d, k.t, k.cmd.key), notified |-> {}]
      [] k.call = "keys" ->
           [data |-> d, ret |-> DataStore_keys(d), notified |-> {}]
      [] k.call = "xrange" ->
           LET got == DataStore_get_ref(d, k.t, k.cmd.key)
           IN  [data |-> d,
                ret |-> IF got.some
                        THEN Some(range_reply(got.val, k.cmd.start, k.cmd.end))
                        ELSE None,
                notified |-> {}]
      [] k.call = "xread" ->
           [data |-> d,
            ret |-> xread_collect(d, k.t,
                                  [i \in 1..Len(k.cmd.keys) |-> <<k.cmd.keys[i], k.cmd.start>>],
                                  <<>>),
            notified |-> {}]
      [] k.call = "insert" ->
           DataStore_insert_stream_item(d, k.t, k.cmd.key, k.cmd.id, k.cmd.payload)
      [] k.call = "notify" ->
           LET r == DataStore_notify_on_stream_insert(d, k.t, k.cmd.key, k.tx)
           IN  [data |-> r.data, ret |-> r.ret, notified |-> {}]

\* The task of a connection that reached `self.data.lock().await` of a store call.
\* `since` is history: how many insertions its log had seen when the task registered.
Locking(k, call, cmd, t) ==
    [pc |-> "lock", blocks |-> k.blocks, call |-> call, cmd |-> cmd, t |-> t,
     tx |-> "", deadline |-> None, since |-> 0]

\* The task after the reply of its command is written: back in read_command.
Idle(k) == [pc |-> "idle", blocks |-> k.blocks]

\* What a connection's reply step records: the command, who ran it, what was written.
Written(c, k, reply, notified) ==
    Call(k.cmd.op, k.cmd.key, [conn |-> c, cmd |-> k.cmd], reply, notified)

\* Mutex::lock that hands out the guard while another task holds it.
Acquire_NoExclusion(c) ==
    /\ conn[c].pc = "lock"
    /\ lock' = Some(c)
    /\ conn' = [conn EXCEPT ![c].pc = "held"]
    /\ serial' = [data |-> DataStore_call(serial.data, conn[c]).data,
                  ret |-> Some(DataStore_call(serial.data, conn[c]).ret)]
    /\ UNCHANGED <<data, now, last, xadds, chan>>
    /\ UNCHANGED evars

\* Mutex::lock().await resolves: the task gets the guard when no task holds it.  The
\* history `serial` runs the whole call at this instant.
Acquire(c) ==
    /\ conn[c].pc = "lock"
    /\ lock = None
    /\ lock' = Some(c)
    /\ conn' = [conn EXCEPT ![c].pc = "held"]
    /\ serial' = [data |-> DataStore_call(serial.data, conn[c]).data,
                  ret |-> Some(DataStore_call(serial.data, conn[c]).ret)]
    /\ UNCHANGED <<data, now, last, xadds, chan>>
    /\ UNCHANGED evars

\* The guard of the finished call is dropped.
Unlocked == [data |-> serial.data, ret |-> None]

\* SET key value, up to the lock of DataStore::set (which samples the clock first).
ConnSet(c, key, value) ==
    /\ conn[c].pc = "idle"
    /\ conn' = [conn EXCEPT ![c] =
                   Locking(@, "set", [op |-> "SET", key |-> key, value |-> value], now)]
    /\ UNCHANGED <<data, now, last, xadds, chan, lock, serial>>
    /\ UNCHANGED evars

\* DataStore::set under the guard, then handle_set's reply.
SetBody(c) ==
    LET k == conn[c]
        r == DataStore_call(data, k)
    IN
    /\ k.pc = "held" /\ k.call = "set" /\ lock = Some(c)
    /\ data' = r.data
    /\ xadds' = [xadds EXCEPT ![k.cmd.key] = <<>>]
    /\ lock' = None
    /\ serial' = Unlocked
    /\ conn' = [conn EXCEPT ![c] = Idle(k)]
    /\ last' = Written(c, k, SimpleString("OK"), {})
    /\ UNCHANGED <<now, chan>>
    /\ UNCHANGED evars

\* GET key, up to the lock of DataStore::get_ref.
ConnGet(c, key) ==
    /\ conn[c].pc = "idle"
    /\ conn' = [conn EXCEPT ![c] = Locking(@, "get", [op |-> "GET", key |-> key], now)]
    /\ UNCHANGED <<data, now, last, xadds, chan, lock, serial>>
    /\ UNCHANGED evars

\* DataStore::get under the guard, then handle_get's reply.
GetBody(c) ==
    LET k == conn[c]
        got == DataStore_call(data, k).ret
        reply == IF ~got.some THEN NullString
                 ELSE IF got.val.kind = "string" THEN BulkString(got.val.str)
                 ELSE SimpleError([kind |-> "Unimplemented"])
    IN
    /\ k.pc = "held" /\ k.call = "get" /\ lock = Some(c)
    /\ lock' = None
    /\ serial' = Unlocked
    /\ conn' = [conn EXCEPT ![c] = Idle(k)]
    /\ last' = Written(c, k, reply, {})
    /\ UNCHANGED <<data, now, xadds, chan>>
    /\ UNCHANGED evars

\* KEYS *, up to the lock of DataStore::keys.
ConnKeys(c) ==
    /\ conn[c].pc = "idle"
    /\ conn' = [conn EXCEPT ![c] = Locking(@, "keys", [op |-> "KEYS", key |-> "*"], 0)]
    /\ UNCHANGED <<data, now, last, xadds, chan, lock, serial>>
    /\ UNCHANGED evars

\* DataStore::keys under the guard, then handle_keys's reply: the keys in the order the
\* HashMap iterates them.
KeysBody(c) ==
    LET k == conn[c]
        keys == DataStore_call(data, k).ret
        n == Cardinality(keys)
    IN
    /\ k.pc = "held" /\ k.call = "keys" /\ lock = Some(c)
    /\ lock' = None
    /\ serial' = Unlocked
    /\ conn' = [conn EXCEPT ![c] = Idle(k)]
    /\ \E order \in {f \in [1..n -> keys] : \A i, j \in 1..n : i # j => f[i] # f[j]} :
           last' = Written(c, k, Array([i \in 1..n |-> BulkString(order[i])]), {})
    /\ UNCHANGED <<data, now, xadds, chan>>
    /\ UNCHANGED evars

\* XRANGE key start end, up to the lock of DataStore::get_ref; a malformed bound is
\* replied to at once.
ConnXrange(c, key, start, end) ==
    LET b == xrange_bounds(start, end)
        cmd == [op |-> "XRANGE", key |-> key, start |-> b.val.start, end |-> b.val.end]
    IN
    /\ conn[c].pc = "idle"
    /\ IF b.ok
       THEN /\ conn' = [conn EXCEPT ![c] = Locking(@, "xrange", cmd, now)]
            /\ UNCHANGED last
       ELSE /\ last' = Call("XRANGE", key, [conn |-> c, start |-> start, end |-> end],
                            SimpleError(b.err), {})
            /\ UNCHANGED conn
    /\ UNCHANGED <<data, now, xadds, chan, lock, serial>>
    /\ UNCHANGED evars

\* The range under the guard, then handle_xrange's reply.
XrangeBody(c) ==
    LET k == conn[c]
        got == DataStore_call(data, k).ret
        reply == IF ~got.some THEN NullString
                 ELSE IF got.val.ok THEN got.val.val ELSE SimpleError(got.val.err)
    IN
    /\ k.pc = "held" /\ k.call = "xrange" /\ lock = Some(c)
    /\ lock' = None
    /\ serial' = Unlocked
    /\ conn' = [conn EXCEPT ![c] = Idle(k)]
    /\ last' = Written(c, k, reply, {})
    /\ UNCHANGED <<data, now, xadds, chan>>
    /\ UNCHANGED evars

\* XADD key id field value ..., up to the lock of insert_stream_item: the field map is
\* built and the ID parsed first, and either failure is replied to at once.
ConnXadd(c, key, id, fields) ==
    LET items == xadd_items(fields, EmptyMap)
        parsed == ItemId_try_from(id)
        arg == [conn |-> c, id |-> id, fields |-> fields]
    IN
    /\ conn[c].pc = "idle"
    /\ IF ~items.some
       THEN /\ last' = Call("XADD", key, arg,
                            SimpleError([kind |-> "MissingArgument", name |-> "value"]), {})
            /\ UNCHANGED conn
       ELSE IF ~parsed.ok
       THEN /\ last' = Call("XADD", key, arg, SimpleError(parsed.err), {})
            /\ UNCHANGED conn
       ELSE /\ \E payload \in HashMap_iter_orders(items.val) :
                 conn' = [conn EXCEPT ![c] =
                            Locking(@, "insert",
                                    [op |-> "XADD", key |-> key, text |-> id,
                                     fields |-> fields, id |-> parsed.val,
                                     payload |-> payload], 0)]
            /\ UNCHANGED last
    /\ UNCHANGED <<data, now, xadds, chan, lock, serial>>
    /\ UNCHANGED evars

\* The first half of insert_stream_item and of notify_on_stream_insert under the
\* guard: the entry of the key is found or made.
StoreEntry(c) ==
    LET k == conn[c] IN
    /\ k.pc = "held" /\ k.call \in {"insert", "notify"} /\ lock = Some(c)
    /\ data' = HashMap_entry_or_insert_stream(data, k.cmd.key)
    /\ conn' = [conn EXCEPT ![c].pc = "entry"]
    /\ UNCHANGED <<now, last, xadds, chan, lock, serial>>
    /\ UNCHANGED evars

\* The second half of insert_stream_item: as_stream_mut, Stream::insert and the
\* delivery to the listeners; the guard is dropped and handle_xadd replies.
XaddBody(c) ==
    LET k == conn[c]
        r == DataStore_call(data, k)
    IN
    /\ k.pc = "entry" /\ k.call = "insert" /\ lock = Some(c)
    /\ data' = r.data
    /\ xadds' = IF r.ret.ok
                THEN [xadds EXCEPT ![k.cmd.key] =
                         Append(@, [id |-> k.cmd.text, fields |-> k.cmd.fields,
                                    at |-> now])]
                ELSE xadds
    /\ chan' = IF r.ret.ok
               THEN Stream_deliver(chan, r.notified, <<k.cmd.key, r.ret.val, k.cmd.payload>>)
               ELSE chan
    /\ lock' = None
    /\ serial' = Unlocked
    /\ conn' = [conn EXCEPT ![c] = Idle(k)]
    /\ last' = Written(c, k, IF r.ret.ok THEN BulkString(ItemId_to_string(r.ret.val))
                             ELSE SimpleError(r.ret.err), r.notified)
    /\ UNCHANGED now
    /\ UNCHANGED evars

\* XREAD [BLOCK ms] STREAMS key ... id ... (the same id for every key), up to the lock
\* of the range check's first get_ref; a malformed cursor is replied to at once.  block
\* is None without the option.  cmd.key is the key the command is at: the first one,
\* and during the registration the one being registered, with cmd.rest still to come.
ConnXreadStreams(c, keys, id, block) ==
    LET start == xread_parse_item_id(id, now)
        cmd == [op |-> "XREAD", key |-> Head(keys), keys |-> keys, rest |-> Tail(keys),
                text |-> id, start |-> start.val, block |-> block]
    IN
    /\ conn[c].pc = "idle"
    /\ block.some => conn[c].blocks < MaxBlocks
    /\ IF start.ok
       THEN /\ conn' = [conn EXCEPT ![c] = Locking(@, "xread", cmd, now)]
            /\ UNCHANGED last
       ELSE /\ last' = Call("XREAD", Head(keys), [conn |-> c, id |-> id, block |-> block],
                            SimpleError(start.err), {})
            /\ UNCHANGED conn
    /\ UNCHANGED <<data, now, xadds, chan, lock, serial>>
    /\ UNCHANGED evars

\* XREAD [BLOCK ms] STREAMS key id
ConnXread(c, key, id, block) == ConnXreadStreams(c, <<key>>, id, block)

\* The non-blocking range check under the guard of get_ref.  An error or a non-empty
\* result is replied; an empty result is replied as NullString when the command has no
\* BLOCK; otherwise the task makes its channel and goes on to notify_on_stream_insert,
\* which takes the lock anew.
XreadCheck(c) ==
    LET k == conn[c]
        resp == DataStore_call(data, k).ret
        tx == Tx(c, k.blocks + 1)
    IN
    /\ k.pc = "held" /\ k.call = "xread" /\ lock = Some(c)
    /\ lock' = None
    /\ serial' = Unlocked
    /\ IF ~resp.ok
       THEN /\ last' = Written(c, k, SimpleError(resp.err), {})
            /\ conn' = [conn EXCEPT ![c] = Idle(k)]
            /\ UNCHANGED chan
       ELSE IF Len(resp.val) # 0
       THEN /\ last' = Written(c, k, Array(resp.val), {})
            /\ conn' = [conn EXCEPT ![c] = Idle(k)]
            /\ UNCHANGED chan
       ELSE IF ~k.cmd.block.some
       THEN /\ last' = Written(c, k, NullString, {})
            /\ conn' = [conn EXCEPT ![c] = Idle(k)]
            /\ UNCHANGED chan
       ELSE /\ conn' = [conn EXCEPT ![c] =
                          [k EXCEPT !.pc = "lock", !.call = "notify",
                                    !.blocks = @ + 1, !.tx = tx]]
            /\ chan' = [chan EXCEPT ![tx] = OpenChan]
            /\ UNCHANGED last
    /\ UNCHANGED <<data, now, xadds>>
    /\ UNCHANGED evars

\* The registration that leaves the guard with the task when it starts to wait.
XreadRegister_KeepLock(c) ==
    LET k == conn[c]
        r == DataStore_call(data, k)
    IN
    /\ k.pc = "entry" /\ k.call = "notify" /\ lock = Some(c)
    /\ data' = r.data
    /\ serial' = Unlocked
    /\ IF r.ret.ok
       THEN /\ conn' = [conn EXCEPT ![c] =
                          [k EXCEPT !.pc = "wait",
                                    !.since = Len(xadds[k.cmd.key]),
                                    !.deadline = IF k.cmd.block.val > 0
                                                 THEN Some(now + k.cmd.block.val)
                                                 ELSE None]]
            /\ UNCHANGED <<last, chan, lock>>
       ELSE /\ last' = Written(c, k, SimpleError(r.ret.err), {})
            /\ conn' = [conn EXCEPT ![c] = Idle(k)]
            /\ chan' = [chan EXCEPT ![k.tx] = ClosedChan]
            /\ lock' = None
    /\ UNCHANGED <<now, xadds>>
    /\ UNCHANGED evars

\* The second half of notify_on_stream_insert: as_stream_mut and notify_on_insert; the
\* guard is dropped.  The loop of handle_xread goes on to the next key, which takes the
\* lock anew; after the last key the task waits on rx.recv(), raced against a sleep of
\* the block duration when that is positive.  A type mismatch leaves the loop through
\* the `?`: it is replied and rx is dropped.
XreadRegister(c) ==
    LET k == conn[c]
        r == DataStore_call(data, k)
    IN
    /\ k.pc = "entry" /\ k.call = "notify" /\ lock = Some(c)
    /\ data' = r.data
    /\ lock' = None
    /\ serial' = Unlocked
    /\ IF r.ret.ok /\ k.cmd.rest # <<>>
       THEN /\ conn' = [conn EXCEPT ![c] =
                          [k EXCEPT !.pc = "lock", !.cmd.key = Head(k.cmd.rest),
                                    !.cmd.rest = Tail(k.cmd.rest)]]
            /\ UNCHANGED <<last, chan>>
       ELSE IF r.ret.ok
       THEN /\ conn' = [conn EXCEPT ![c] =
                          [k EXCEPT !.pc = "wait",
                                    !.since = Len(xadds[k.cmd.key]),
                                    !.deadline = IF k.cmd.block.val > 0
                                                 THEN Some(now + k.cmd.block.val)
                                                 ELSE None]]
            /\ UNCHANGED <<last, chan>>
       ELSE /\ last' = Written(c, k, SimpleError(r.ret.err), {})
            /\ conn' = [conn EXCEPT ![c] = Idle(k)]
            /\ chan' = [chan EXCEPT ![k.tx] = ClosedChan]
    /\ UNCHANGED <<now, xadds>>
    /\ UNCHANGED evars

\* rx.recv() that yields None while the channel is empty: the read replies NullString.
XreadRecv_Spurious(c) ==
    LET k == conn[c] IN
    /\ k.pc = "wait"
    /\ conn' = [conn EXCEPT ![c] = Idle(k)]
    /\ chan' = [chan EXCEPT ![k.tx] = ClosedChan]
    /\ last' = Written(c, k, NullString, {})
    /\ UNCHANGED <<data, now, xadds, lock, serial>>
    /\ UNCHANGED evars

\* rx.recv() yields the delivered item: the reply is that one item under its key, and
\* rx is dropped with the end of handle_xread.
XreadRecv(c) ==
    LET k == conn[c]
        msg == chan[k.tx].buf[1]
    IN
    /\ k.pc = "wait"
    /\ Len(chan[k.tx].buf) > 0
    /\ conn' = [conn EXCEPT ![c] = Idle(k)]
    /\ chan' = [chan EXCEPT ![k.tx] = ClosedChan]
    /\ last' = Written(c, k,
                       Array(<<Array(<<BulkString(msg[1]),
                                       Array(<<Item_into_Type(msg[2], msg[3])>>)>>)>>),
                       {})
    /\ UNCHANGED <<data, now, xadds, lock, serial>>
    /\ UNCHANGED evars

\* A sleep that resolves at any time.
XreadTimeout_Early(c) ==
    LET k == conn[c] IN
    /\ k.pc = "wait"
    /\ k.deadline.some
    /\ conn' = [conn EXCEPT ![c] = Idle(k)]
    /\ chan' = [chan EXCEPT ![k.tx] = ClosedChan]
    /\ last' = Written(c, k, NullString, {})
    /\ UNCHANGED <<data, now, xadds, lock, serial>>
    /\ UNCHANGED evars

\* The sleep of the select! resolves: the reply is NullString and rx is dropped.  The
\* select! takes either branch when both are ready.
XreadTimeout(c) ==
    LET k == conn[c] IN
    /\ k.pc = "wait"
    /\ k.deadline.some /\ now >= k.deadline.val
    /\ conn' = [conn EXCEPT ![c] = Idle(k)]
    /\ chan' = [chan EXCEPT ![k.tx] = ClosedChan]
    /\ last' = Written(c, k, NullString, {})
    /\ UNCHANGED <<data, now, xadds, lock, serial>>
    /\ UNCHANGED evars

\* Time passes for the connections.
ConnTick ==
    /\ now < MaxConnTime
    /\ now' = now + 1
    /\ UNCHANGED <<data, last, xadds, cvars>>
    /\ UNCHANGED evars

----------------------------------------------------------------------------
(* The connection specification: two connections, the log k1 and the key k2; *)
(* the clock stands still and blocking reads have no timeout                *)

ConnLogKeys == {"k1"}
ConnIdTexts == {ItemId_to_string(ItemId_new(0, 1)), ItemId_to_string(ItemId_new(0, 2))}
ConnCursorTexts == {ItemId_to_string(ItemId_new(0, 1))}
ConnBlockForever == Some(0)     \* BLOCK 0: the read waits without a timeout
ConnBlocks == {Some(0), Some(1)}
ConnFields == {<<"a", "x">>}
ConnTextClients == {"c2"}     \* the connections that also send SET, GET and KEYS

ConnStep(c) ==
    \/ Acquire(c)
    \/ SetBody(c)
    \/ GetBody(c)
    \/ KeysBody(c)
    \/ XrangeBody(c)
    \/ StoreEntry(c)
    \/ XaddBody(c)
    \/ XreadCheck(c)
    \/ XreadRegister(c)
    \/ XreadRecv(c)

NextConn ==
    \/ \E c \in ConnTextClients : ConnSet(c, "k2", "v1")
    \/ \E c \in ConnTextClients : ConnGet(c, "k2")
    \/ \E c \in ConnTextClients : ConnKeys(c)
    \/ \E c \in Conns, k \in ConnLogKeys : ConnXrange(c, k, <<"-">>, <<"+">>)
    \/ \E c \in Conns, k \in ConnLogKeys, id \in ConnIdTexts, f \in ConnFields :
           ConnXadd(c, k, id, f)
    \/ \E c \in Conns, k \in ConnLogKeys, id \in ConnCursorTexts :
           ConnXread(c, k, id, ConnBlockForever)
    \/ \E c \in Conns : ConnStep(c)

SpecConn == Init /\ [][NextConn]_vars

----------------------------------------------------------------------------
(* The blocking-read specification: two connections that add to the log k1  *)
(* and read it with BLOCK                                                    *)

BlockStep(c) ==
    \/ Acquire(c)
    \/ StoreEntry(c)
    \/ XaddBody(c)
    \/ XreadCheck(c)
    \/ XreadRegister(c)
    \/ XreadRecv(c)
    \/ XreadTimeout(c)

NextBlock ==
    \/ ConnTick
    \/ \E c \in Conns, k \in ConnLogKeys, id \in ConnIdTexts, f \in ConnFields :
           ConnXadd(c, k, id, f)
    \/ \E c \in Conns, k \in ConnLogKeys, id \in ConnCursorTexts, b \in ConnBlocks :
           ConnXread(c, k, id, b)
    \/ \E c \in Conns : BlockStep(c)

SpecBlock == Init /\ [][NextBlock]_vars

\* The scheduler runs every task that can take a step, time passes, and the Mutex is
\* fair: a task waiting for the lock gets it when it is free again and again.  No
\* client has to send a command.
FairSpecBlock ==
    /\ SpecBlock
    /\ WF_vars(ConnTick)
    /\ \A c \in Conns :
          /\ SF_vars(Acquire(c))
          /\ WF_vars(StoreEntry(c) \/ XaddBody(c) \/ XreadCheck(c)
                       \/ XreadRegister(c) \/ XreadRecv(c) \/ XreadTimeout(c))

----------------------------------------------------------------------------
(* The dispatcher: run_int reads a command, run_command hands it to its     *)
(* handler, and an error the handler returns is replied to or ends the task *)

\* Error::is_fatal that takes every error as fatal.
is_fatal_Always(e) == TRUE

\* Error::is_fatal: an I/O error and an error with context end the connection.
is_fatal(e) == e.kind \in {"AsyncIoError", "Context"}

\* str::to_ascii_lowercase on the names the model's commands have.
to_ascii_lowercase(s) ==
    CASE s = "PING" -> "ping"
      [] s = "SET" -> "set"
      [] s = "GET" -> "get"
      [] s = "KEYS" -> "keys"
      [] s = "CONFIG" -> "config"
      [] OTHER -> s

\* str::to_ascii_uppercase on the names the model's commands have.
to_ascii_uppercase(s) ==
    CASE s = "ping" -> "PING"
      [] s = "foo" -> "FOO"
      [] s = "get" -> "GET"
      [] s = "set" -> "SET"
      [] s = "xadd" -> "XADD"
      [] s = "xrange" -> "XRANGE"
      [] s = "xread" -> "XREAD"
      [] s = "keys" -> "KEYS"
      [] s = "config" -> "CONFIG"
      [] OTHER -> s

\* Error::redis_error_message that reports every error of an insertion as the
\* ordering violation.
redis_error_message_OneText(e, cmd) ==
    [text |-> "The ID specified in {cmd} is equal or smaller than the target stream top item",
     cmd |-> cmd, other |-> None]

\* Error::redis_error_message: the text of the reply, as the format string and what
\* fills it.
redis_error_message(e, cmd) ==
    IF e.kind = "IdIsNotGreaterThanHighestStored"
    THEN [text |-> "The ID specified in {cmd} is equal or smaller than the target stream top item",
          cmd |-> cmd, other |-> None]
    ELSE IF e.kind = "TooLow"
    THEN [text |-> "The ID specified in {cmd} must be greater than 0-0",
          cmd |-> cmd, other |-> None]
    ELSE [text |-> "Internal Error in {cmd}: {other}", cmd |-> cmd, other |-> Some(e)]

\* ErrorKind::Generic, displayed as ERR.
Generic == "ERR"

\* Type::SimpleError(err.kind(), err.redis_error_message(&command)) as run_int writes it.
ErrorReply(e, command) ==
    [type |-> "SimpleError", err |-> e, kind |-> Generic,
     message |-> redis_error_message(e, command)]

\* What a handler leaves: the mapping, the replies it wrote, and Ok or its error.
Outcome(d, writes, ret) == [data |-> d, writes |-> writes, ret |-> ret]

\* `args.next().ok_or(Error::MissingArgument(cmd, name))?` on an exhausted iterator.
MissingArgument(d, name) ==
    {Outcome(d, <<>>, Err([kind |-> "MissingArgument", name |-> name]))}

\* handle_ping
handle_ping(d, t, args) ==
    {Outcome(d, <<IF Len(args) > 0 THEN BulkString(args[1]) ELSE SimpleString("PONG")>>,
             Ok("unit"))}

\* handle_get
handle_get(d, t, args) ==
    IF Len(args) < 1 THEN MissingArgument(d, "key")
    ELSE LET got == DataStore_get(d, t, args[1]) IN
         IF ~got.some THEN {Outcome(d, <<NullString>>, Ok("unit"))}
         ELSE IF got.val.kind = "string"
         THEN {Outcome(d, <<BulkString(got.val.str)>>, Ok("unit"))}
         ELSE {Outcome(d, <<>>, Err([kind |-> "Unimplemented"]))}

\* handle_set; the arguments after the value are `px` and a number, or absent.
handle_set(d, t, args) ==
    IF Len(args) < 1 THEN MissingArgument(d, "key")
    ELSE IF Len(args) < 2 THEN MissingArgument(d, "value")
    ELSE LET expires_at == IF Len(args) >= 4 /\ args[3] = "px"
                           THEN Some(t + args[4]) ELSE None
             r == DataStore_set(d, t, args[1], StringValue(args[2]), expires_at)
         IN  {Outcome(r.data, <<SimpleString("OK")>>, Ok("unit"))}

\* handle_xadd
handle_xadd(d, t, args) ==
    IF Len(args) < 1 THEN MissingArgument(d, "key")
    ELSE IF Len(args) < 2 THEN MissingArgument(d, "id")
    ELSE LET items == xadd_items(SubSeq(args, 3, Len(args)), EmptyMap)
             parsed == ItemId_try_from(args[2])
         IN  IF ~items.some THEN MissingArgument(d, "value")
             ELSE IF ~parsed.ok THEN {Outcome(d, <<>>, parsed)}
             ELSE {LET r == DataStore_insert_stream_item(d, t, args[1], parsed.val, payload)
                   IN  IF r.ret.ok
                       THEN Outcome(r.data, <<BulkString(ItemId_to_string(r.ret.val))>>,
                                    Ok("unit"))
                       ELSE Outcome(r.data, <<>>, r.ret)
                   : payload \in HashMap_iter_orders(items.val)}

\* handle_xrange
handle_xrange(d, t, args) ==
    IF Len(args) < 1 THEN MissingArgument(d, "key")
    ELSE IF Len(args) < 2 THEN MissingArgument(d, "start")
    ELSE IF Len(args) < 3 THEN MissingArgument(d, "end")
    ELSE LET b == xrange_bounds(args[2], args[3])
             got == DataStore_get_ref(d, t, args[1])
             res == IF got.some THEN range_reply(got.val, b.val.start, b.val.end)
                    ELSE Ok(NullString)
         IN  IF ~b.ok THEN {Outcome(d, <<>>, b)}
             ELSE IF ~res.ok THEN {Outcome(d, <<>>, res)}
             ELSE {Outcome(d, <<res.val>>, Ok("unit"))}

\* handle_xread without BLOCK: no argument, STREAMS key id, STREAMS with an odd number
\* of arguments, or an argument that is neither STREAMS nor BLOCK.
handle_xread(d, t, args) ==
    IF Len(args) = 0 THEN {Outcome(d, <<NullString>>, Ok("unit"))}
    ELSE IF args[1] # "STREAMS"
    THEN {Outcome(d, <<>>, Err([kind |-> "UnexpectedArgument", arg |-> args[1]]))}
    ELSE IF (Len(args) - 1) % 2 # 0 THEN MissingArgument(d, "item_id")
    ELSE IF Len(args) = 1 THEN {Outcome(d, <<NullString>>, Ok("unit"))}
    ELSE LET start == xread_parse_item_id(args[3], t)
             resp == xread_collect(d, t, <<<<args[2], start.val>>>>, <<>>)
         IN  IF ~start.ok THEN {Outcome(d, <<>>, start)}
             ELSE IF ~resp.ok THEN {Outcome(d, <<>>, resp)}
             ELSE IF Len(resp.val) = 0 THEN {Outcome(d, <<NullString>>, Ok("unit"))}
             ELSE {Outcome(d, <<Array(resp.val)>>, Ok("unit"))}

\* handle_keys: anything but `KEYS *` is Error::Unimplemented with a context.
handle_keys(d, t, args) ==
    IF Len(args) < 1 THEN MissingArgument(d, "key")
    ELSE IF args[1] # "*"
    THEN {Outcome(d, <<>>, Err([kind |-> "Context",
                                 source |-> [kind |-> "Unimplemented"]]))}
    ELSE LET keys == DataStore_keys(d)
             n == Cardinality(keys)
         IN  {Outcome(d, <<Array([i \in 1..n |-> BulkString(order[i])])>>, Ok("unit"))
              : order \in {f \in [1..n -> keys] : \A i, j \in 1..n : i # j => f[i] # f[j]}}

\* DataStore.config: the options the server was started with (`--dir /tmp`).
Config == [name \in {"dir"} |-> "/tmp"]

\* DataStore::get_config
DataStore_get_config(key) == IF key \in DOMAIN Config THEN Some(Config[key]) ELSE None

\* handle_config_get
handle_config_get(d, t, args) ==
    IF Len(args) < 1 THEN MissingArgument(d, "key")
    ELSE LET key == to_ascii_lowercase(args[1])
             got == DataStore_get_config(key)
         IN  {Outcome(d, <<IF got.some THEN Array(<<BulkString(key), BulkString(got.val)>>)
                           ELSE NullString>>,
                      Ok("unit"))}

\* handle_config: `None => todo!()` panics on CONFIG without a subcommand.
handle_config(d, t, args) ==
    IF Len(args) = 0 THEN {Outcome(d, <<>>, Panic)}
    ELSE IF to_ascii_lowercase(args[1]) = "get" THEN handle_config_get(d, t, Tail(args))
    ELSE {Outcome(d, <<>>, Err([kind |-> "UnimplementedCommand",
                                cmd |-> "CONFIG " \o to_ascii_lowercase(args[1])]))}

\* run_command: the handler of the command's name, UnimplementedCommand for a name
\* without one.  The outcomes differ only in the iteration order of a HashMap.
run_command(d, t, cmd) ==
    CASE cmd.name = "ping" -> handle_ping(d, t, cmd.args)
      [] cmd.name = "get" -> handle_get(d, t, cmd.args)
      [] cmd.name = "set" -> handle_set(d, t, cmd.args)
      [] cmd.name = "xadd" -> handle_xadd(d, t, cmd.args)
      [] cmd.name = "xrange" -> handle_xrange(d, t, cmd.args)
      [] cmd.name = "xread" -> handle_xread(d, t, cmd.args)
      [] cmd.name = "keys" -> handle_keys(d, t, cmd.args)
      [] cmd.name = "config" -> handle_config(d, t, cmd.args)
      [] OTHER -> {Outcome(d, <<>>, Err([kind |-> "UnimplementedCommand",
                                         cmd |-> cmd.name]))}

\* The connection after run_int returned the fatal error: the task ends and the
\* socket is closed.
ClosedConn(k) == [pc |-> "closed", blocks |-> k.blocks]

\* The reply the command of connection c before this one got was an error reply
\* (history, kept with the record of the command).
AfterError(c) ==
    /\ last.op \notin {"init", "tick"}
    /\ last.arg.conn = c
    /\ Len(last.ret) = 1 /\ last.ret[1].type = "SimpleError"

\* The task of a connection after run_command returned or panicked: it goes on with
\* the loop unless the error is fatal; a panic unwinds the task, which drops the socket.
task_after(k, ret) ==
    IF ret = Panic THEN ClosedConn(k)
    ELSE IF ~ret.ok /\ is_fatal(ret.err) THEN ClosedConn(k)
    ELSE k

\* What the round has written (and, as a mark, the panic it ended in): the handler's
\* replies, and one SimpleError with the command's name for an error that is not fatal.
written_after(o, command) ==
    IF o.ret = Panic THEN Append(o.writes, Panic)
    ELSE IF ~o.ret.ok /\ ~is_fatal(o.ret.err)
    THEN Append(o.writes, ErrorReply(o.ret.err, command))
    ELSE o.writes

\* A parsed command: its lower-cased name and its arguments.
Command(name, args) == [name |-> name, args |-> args]

\* One round of run_int's loop on connection c: the command is run; an error that is
\* not fatal is written as one SimpleError and the loop goes on, a fatal one ends it.
RunInt(c, name, args) ==
    /\ conn[c].pc = "idle"
    /\ \E r \in run_command(data, now, Command(name, args)) :
          /\ data' = r.data
          /\ conn' = [conn EXCEPT ![c] = task_after(@, r.ret)]
          /\ last' = Call(name, "",
                          [conn |-> c, cmd |-> Command(name, args),
                           after_error |-> AfterError(c)],
                          written_after(r, to_ascii_uppercase(name)), {})
    /\ UNCHANGED <<now, xadds, chan, lock, serial>>
    /\ UNCHANGED evars

----------------------------------------------------------------------------
(* The command specification: two connections send well-formed and faulty   *)
(* commands; the history of XADDs is not kept                               *)

CmdKeys == {"k1", "k2"}
CmdGoodIds == {ItemId_to_string(ItemId_new(0, 1)), ItemId_to_string(ItemId_new(0, 2))}
CmdZeroId == ItemId_to_string(ItemId_new(0, 0))
CmdBadIds == {<<"1">>, <<"a", "-", "1">>, <<"1", "-", "2", "-", "3">>}

CmdNames == {"ping", "foo", "get", "set", "xadd", "xrange", "xread", "keys"}
CmdCursors == {ItemId_to_string(ItemId_new(0, 0))} \cup CmdBadIds

NextCmd ==
    \/ \E c \in Conns, name \in CmdNames : RunInt(c, name, <<>>)
    \/ \E c \in Conns, a \in {"*", "k"} : RunInt(c, "keys", <<a>>)
    \/ \E c \in Conns, k \in CmdKeys, name \in {"get", "set", "xadd", "xrange"} :
           RunInt(c, name, <<k>>)
    \/ \E c \in Conns : RunInt(c, "set", <<"k2", "v1">>)
    \/ \E c \in Conns, k \in CmdKeys, id \in CmdGoodIds \cup CmdBadIds :
           RunInt(c, "xadd", <<k, id, "a", "x">>)
    \/ \E c \in Conns, id \in CmdGoodIds : RunInt(c, "xadd", <<"k1", id, "a">>)
    \/ \E c \in Conns, k \in CmdKeys : RunInt(c, "xadd", <<k, CmdZeroId, "a", "x">>)
    \/ \E c \in Conns, k \in CmdKeys : RunInt(c, "xrange", <<k, <<"-">>>>)
    \/ \E c \in Conns, k \in CmdKeys, id \in {<<"-">>} \cup CmdBadIds :
           RunInt(c, "xrange", <<k, id, <<"+">>>>)
    \/ \E c \in Conns : RunInt(c, "xread", <<"FOO">>)
    \/ \E c \in Conns, k \in CmdKeys : RunInt(c, "xread", <<"STREAMS", k>>)
    \/ \E c \in Conns, k \in CmdKeys, id \in CmdCursors :
           RunInt(c, "xread", <<"STREAMS", k, id>>)

SpecCmd == Init /\ [][NextCmd]_vars

----------------------------------------------------------------------------
(* The parsing specification: ItemId::try_from is applied to texts; the state  *)
(* keeps the last text and what the conversion gave                            *)

MaxIdLen == 4        \* the texts of the parsing specification have up to MaxIdLen characters

IdChars == {"0", "1", "-", "+", "a"}

\* The texts of stream.rs's test, and numbers past the end of u64's range (u64::MAX + 1
\* and ten times u64::MAX).
IdTextsGiven ==
    {<<"9", "9", "9", "-", "0">>, <<"0", "-", "1", "-">>,
     <<"1", "8", "4", "4", "6", "7", "4", "4", "0", "7",
       "3", "7", "0", "9", "5", "5", "1", "6", "1", "6", "-", "0">>,
     <<"0", "-">> \o U64MaxDigits \o <<"0">>}

IdTexts == UNION {[1..n -> IdChars] : n \in 0..MaxIdLen} \cup IdTextsGiven

\* A call of ItemId::try_from(text).
TryFrom(text) ==
    /\ last' = Call("try_from", "", [text |-> text], ItemId_try_from(text), {})
    /\ UNCHANGED <<data, now, xadds, cvars>>
    /\ UNCHANGED evars

NextParse == \E text \in IdTexts : TryFrom(text)

SpecParse == Init /\ [][NextParse]_vars

----------------------------------------------------------------------------
(* The wire format: Type::write and Type::parse over bytes.  A byte is a    *)
(* one-character string; a text is the sequence of its bytes (the texts of  *)
(* the model are ASCII)                                                     *)

CR == "\r"
LF == "\n"
CRLF == <<CR, LF>>

\* A byte that no UTF-8 text contains.
InvalidByte == "0xFF"

NullArray == [type |-> "NullArray"]
Null == [type |-> "Null"]

\* Type::SimpleError(kind, message)
Type_SimpleError(kind, message) == [type |-> "SimpleError", kind |-> kind, message |-> message]

\* impl Display for ErrorKind
ErrorKind_to_string(kind) == <<"E", "R", "R">>

\* usize::to_string
usize_to_string(n) == u64_to_string(n)

RECURSIVE Type_write(_)
RECURSIVE write_items(_)

\* The loop of write_array: the items one after the other.
write_items(value) ==
    IF Len(value) = 0 THEN <<>>
    ELSE Type_write(Head(value)) \o write_items(Tail(value))

\* Type::write (write_impl and the write_* functions): the bytes written.
Type_write(v) ==
    CASE v.type = "SimpleError" ->
             <<"-">> \o ErrorKind_to_string(v.kind) \o <<" ">> \o v.message \o CRLF
      [] v.type = "SimpleString" -> <<"+">> \o v.str \o CRLF
      [] v.type = "BulkString" ->
             <<"$">> \o usize_to_string(Len(v.str)) \o CRLF \o v.str \o CRLF
      [] v.type = "Array" ->
             <<"*">> \o usize_to_string(Len(v.items)) \o CRLF \o write_items(v.items)
      [] v.type = "NullString" -> <<"$", "-", "1">> \o CRLF
      [] v.type = "NullArray" -> <<"*", "-", "1">> \o CRLF
      [] v.type = "Null" -> <<"_">> \o CRLF

\* What a read leaves: the value read and the bytes after it, an error and the bytes
\* not yet read when it was met, or the end of the bytes before the read was complete.
Parsed(val, rest) == [st |-> "ok", val |-> val, rest |-> rest]
Failed(err, rest) == [st |-> "err", err |-> err, rest |-> rest]
UnexpectedEof == [st |-> "eof"]

\* read_until_crlf: the bytes before the first CR, which LF must follow.
RECURSIVE read_until_crlf(_, _)
read_until_crlf(bytes, buffer) ==
    IF Len(bytes) = 0 THEN UnexpectedEof
    ELSE IF Head(bytes) = CR
    THEN IF Len(bytes) < 2 THEN UnexpectedEof
         ELSE IF bytes[2] = LF THEN Parsed(buffer, SubSeq(bytes, 3, Len(bytes)))
         ELSE Failed([kind |-> "InvalidCrLfTerminator", a |-> CR, b |-> bytes[2]],
                     SubSeq(bytes, 3, Len(bytes)))
    ELSE read_until_crlf(Tail(bytes), Append(buffer, Head(bytes)))

\* expect_crlf
expect_crlf(bytes) ==
    IF Len(bytes) < 2 THEN UnexpectedEof
    ELSE IF SubSeq(bytes, 1, 2) # CRLF
    THEN Failed([kind |-> "InvalidCrLfTerminator", a |-> bytes[1], b |-> bytes[2]],
                SubSeq(bytes, 3, Len(bytes)))
    ELSE Parsed(<<>>, SubSeq(bytes, 3, Len(bytes)))

\* str::from_utf8
str_from_utf8(buffer) ==
    IF \E i \in 1..Len(buffer) : buffer[i] = InvalidByte
    THEN Err([kind |-> "Utf8Error"])
    ELSE Ok(buffer)

\* isize::MAX, 2^63 - 1, as its decimal digits.
IsizeMaxDigits == <<"9", "2", "2", "3", "3", "7", "2", "0", "3", "6",
                    "8", "5", "4", "7", "7", "5", "8", "0", "7">>

\* The digits are past isize::MAX (for a negative number: past 2^63).
isize_overflows(ds, negative) ==
    LET n == StripZeros(ds) IN
    \/ Len(n) > Len(IsizeMaxDigits)
    \/ /\ Len(n) = Len(IsizeMaxDigits)
       /\ \E i \in 1..Len(n) :
              /\ DigitVal(n[i]) > DigitVal(IsizeMaxDigits[i]) + (IF negative /\ i = Len(n) THEN 1 ELSE 0)
              /\ \A h \in 1..(i - 1) : n[h] = IsizeMaxDigits[h]

\* str::parse::<isize>(): an optional sign, then one or more decimal digits.
isize_parse(text) ==
    LET negative == Len(text) > 0 /\ text[1] = "-"
        ds == IF Len(text) > 0 /\ text[1] \in {"+", "-"} THEN Tail(text) ELSE text
    IN  IF Len(ds) > 0 /\ (\A i \in 1..Len(ds) : IsDigit(ds[i])) /\ ~isize_overflows(ds, negative)
        THEN Ok(IF negative THEN 0 - DecimalValue(ds) ELSE DecimalValue(ds))
        ELSE Err([kind |-> "PraseIntError"])

\* parse_isize
parse_isize(bytes) ==
    LET line == read_until_crlf(bytes, <<>>) IN
    IF line.st # "ok" THEN line
    ELSE LET text == str_from_utf8(line.val) IN
         IF ~text.ok THEN Failed(text.err, line.rest)
         ELSE LET len == isize_parse(text.val) IN
              IF ~len.ok THEN Failed(len.err, line.rest) ELSE Parsed(len.val, line.rest)

\* parse_null
parse_null(bytes) ==
    LET t == expect_crlf(bytes) IN
    IF t.st # "ok" THEN t ELSE Parsed(Null, t.rest)

\* parse_simple_string
parse_simple_string(bytes) ==
    LET line == read_until_crlf(bytes, <<>>) IN
    IF line.st # "ok" THEN line
    ELSE LET text == str_from_utf8(line.val) IN
         IF ~text.ok THEN Failed(text.err, line.rest)
         ELSE Parsed(SimpleString(text.val), line.rest)

\* parse_bulk_string that takes the payload to end at the first CR LF.
parse_bulk_string_UntilCrLf(bytes) ==
    LET len == parse_isize(bytes) IN
    IF len.st # "ok" THEN len
    ELSE IF len.val < 0 THEN Parsed(NullString, len.rest)
    ELSE LET line == read_until_crlf(len.rest, <<>>) IN
         IF line.st # "ok" THEN line
         ELSE LET text == str_from_utf8(line.val) IN
              IF ~text.ok THEN Failed(text.err, line.rest)
              ELSE Parsed(BulkString(text.val), line.rest)

\* parse_bulk_string: the length, as many bytes, CR LF.
parse_bulk_string(bytes) ==
    LET len == parse_isize(bytes) IN
    IF len.st # "ok" THEN len
    ELSE IF len.val < 0 THEN Parsed(NullString, len.rest)
    ELSE IF Len(len.rest) < len.val THEN UnexpectedEof
    ELSE LET buffer == SubSeq(len.rest, 1, len.val)
             t == expect_crlf(SubSeq(len.rest, len.val + 1, Len(len.rest)))
             text == str_from_utf8(buffer)
         IN  IF t.st # "ok" THEN t
             ELSE IF ~text.ok THEN Failed(text.err, t.rest)
             ELSE Parsed(BulkString(text.val), t.rest)

RECURSIVE Type_parse(_)
RECURSIVE parse_array_items(_, _, _)

\* The loop of parse_array: len values, one after the other.
parse_array_items(bytes, len, buffer) ==
    IF len = 0 THEN Parsed(Array(buffer), bytes)
    ELSE LET ty == Type_parse(bytes) IN
         IF ty.st # "ok" THEN ty
         ELSE parse_array_items(ty.rest, len - 1, Append(buffer, ty.val))

\* parse_array
parse_array(bytes) ==
    LET len == parse_isize(bytes) IN
    IF len.st # "ok" THEN len
    ELSE IF len.val < 0 THEN Parsed(NullArray, len.rest)
    ELSE parse_array_items(len.rest, len.val, <<>>)

\* Type::parse (parse_impl): the type byte chooses the reader.
Type_parse(bytes) ==
    IF Len(bytes) = 0 THEN UnexpectedEof
    ELSE LET ident == Head(bytes)
             rest == Tail(bytes)
         IN  CASE ident = "+" -> parse_simple_string(rest)
               [] ident = "$" -> parse_bulk_string(rest)
               [] ident = "*" -> parse_array(rest)
               [] ident = "_" -> parse_null(rest)
               [] OTHER -> Failed([kind |-> "UnknownTypeSpecifier", ident |-> ident], rest)

----------------------------------------------------------------------------
(* The round-trip specification: a value is written to a buffer and the     *)
(* buffer is parsed, as the tests of resp.rs do                             *)

\* UTF-8 texts without CR or LF.
WireTexts == {<<>>, <<"O", "K">>}

WireLeaves ==
    {Type_SimpleError(Generic, t) : t \in WireTexts}
    \cup {SimpleString(t) : t \in WireTexts}
    \cup {BulkString(t) : t \in WireTexts}
    \cup {NullString, NullArray, Null}

WireLens == 0..2

\* The arrays of up to two values that are not arrays.
WireFlat == WireLeaves \cup {Array(a) : a \in UNION {[1..n -> WireLeaves] : n \in WireLens}}

\* What follows the first item of an array of the second level.
WireTails == {<<>>, <<BulkString(<<"O", "K">>)>>}

\* The values written: those, and the arrays that start with one of those.
WireValues == WireFlat \cup {Array(<<v>> \o a) : v \in WireFlat, a \in WireTails}

\* Type::write(v) to an empty buffer, then Type::parse of the buffer.
WriteThenParse(v) ==
    /\ last' = Call("write_parse", "", [value |-> v], Type_parse(Type_write(v)), {})
    /\ UNCHANGED <<data, now, xadds, cvars>>
    /\ UNCHANGED evars

NextResp == \E v \in WireValues : WriteThenParse(v)

SpecResp == Init /\ [][NextResp]_vars

----------------------------------------------------------------------------
(* The socket of a connection: the peer writes frames, the bytes arrive in  *)
(* chunks, and Type::parse reads one value from the bytes received          *)

MaxSent == 2        \* the peer of a connection writes at most MaxSent frames

\* The peer of connection c writes the bytes of frame to its socket.
PeerSend(c, frame) ==
    /\ ~sock[c].eof
    /\ Len(sock[c].sent) < MaxSent
    /\ sock' = [sock EXCEPT ![c].wire = @ \o frame, ![c].sent = Append(@, frame)]
    /\ last' = Call("send", "", [conn |-> c], None, {})
    /\ UNCHANGED <<data, now, xadds, cvars, boot, repl>>

\* The next bytes on their way to the server are received, k of them at most.
Arrive(c, k) ==
    LET n == IF k < Len(sock[c].wire) THEN k ELSE Len(sock[c].wire) IN
    /\ Len(sock[c].wire) > 0
    /\ sock' = [sock EXCEPT ![c].bytes = @ \o SubSeq(sock[c].wire, 1, n),
                            ![c].wire = SubSeq(@, n + 1, Len(@))]
    /\ last' = Call("arrive", "", [conn |-> c], None, {})
    /\ UNCHANGED <<data, now, xadds, cvars, boot, repl>>

\* What Type::parse returns to its caller; the end of the bytes is an I/O error.
ParseResult(r) ==
    IF r.st = "ok" THEN Ok(r.val)
    ELSE IF r.st = "err" THEN Err(r.err)
    ELSE Err([kind |-> "AsyncIoError"])

\* The bytes of the socket that a read which returned r has not taken.
Unread(r) == IF r.st = "eof" THEN <<>> ELSE r.rest

\* Type::parse(&mut stream) on the socket of connection c returns: the read waits
\* until the bytes received hold a value or an error, or the peer has closed.
Parse(c) ==
    LET r == Type_parse(sock[c].bytes) IN
    /\ r.st # "eof" \/ (sock[c].eof /\ sock[c].wire = <<>>)
    /\ sock' = [sock EXCEPT ![c].bytes = Unread(r), ![c].got = Append(@, ParseResult(r))]
    /\ last' = Call("parse", "", [conn |-> c], ParseResult(r), {})
    /\ UNCHANGED <<data, now, xadds, cvars, boot, repl>>

----------------------------------------------------------------------------
(* The stream specification: the peer of one connection writes encoded      *)
(* values, among them bulk strings with CR and LF in the payload            *)

StreamConn == "c1"

StreamValues ==
    {SimpleString(<<"O", "K">>), BulkString(<<>>), BulkString(<<"a", CR, LF>>),
     BulkString(<<CR>>), NullString, NullArray, Null, Array(<<>>),
     Array(<<BulkString(<<LF, "b">>), SimpleString(<<"1">>)>>),
     Array(<<Array(<<BulkString(<<CR, LF>>)>>), Null>>)}

StreamFrames == {Type_write(v) : v \in StreamValues}

\* The sizes of the chunks in which the bytes arrive.
StreamChunks == {1, 2, 5}

NextStream ==
    \/ \E f \in StreamFrames : PeerSend(StreamConn, f)
    \/ \E k \in StreamChunks : Arrive(StreamConn, k)
    \/ Parse(StreamConn)

SpecStream == Init /\ [][NextStream]_vars

----------------------------------------------------------------------------
(* run_int reading its commands from the socket                             *)

\* The peer of connection c closes its end.
PeerClose(c) ==
    /\ ~sock[c].eof
    /\ sock' = [sock EXCEPT ![c].eof = TRUE]
    /\ last' = Call("close", "", [conn |-> c], None, {})
    /\ UNCHANGED <<data, now, xadds, cvars, boot, repl>>

\* WithContext::context: the error wrapped in Error::Context.
WithContext(context, e) == [kind |-> "Context", context |-> context, source |-> e]

UnexpectedCommandType(value) == [kind |-> "UnexpectedCommandType", value |-> value]

\* Client::read_command after Type::parse has returned: the words of the command, or
\* the error.
read_command_parsed(parsed) ==
    IF parsed.st = "eof" THEN UnexpectedEof
    ELSE IF parsed.st = "err"
    THEN Failed(WithContext("Parsing command", parsed.err), parsed.rest)
    ELSE IF parsed.val.type # "Array"
    THEN Failed(UnexpectedCommandType(parsed.val), parsed.rest)
    ELSE LET cmds == parsed.val.items
             other == {i \in 1..Len(cmds) : cmds[i].type \notin {"BulkString", "SimpleString"}}
         IN  IF other # {}
             THEN Failed(WithContext("Unwrapping parsed command",
                                     UnexpectedCommandType(
                                         cmds[CHOOSE i \in other : \A h \in other : i <= h])),
                         parsed.rest)
             ELSE Parsed([i \in 1..Len(cmds) |-> cmds[i].str], parsed.rest)

\* Client::read_command on the bytes received.
read_command(bytes) == read_command_parsed(Type_parse(bytes))

\* The words of the model's commands as the strings the handlers are given.
String_from(word) ==
    CASE word = <<"P", "I", "N", "G">> -> "PING"
      [] word = <<"S", "E", "T">> -> "SET"
      [] word = <<"k", "1">> -> "k1"
      [] word = <<"v", "1">> -> "v1"
      [] word = <<"G", "E", "T">> -> "GET"
      [] word = <<"K", "E", "Y", "S">> -> "KEYS"
      [] word = <<"C", "O", "N", "F", "I", "G">> -> "CONFIG"
      [] word = <<"d", "i", "r">> -> "dir"
      [] word = <<"k">> -> "k"
      [] OTHER -> "foo"

\* The `?` of run_int on the error of read_command that lets the loop go on.
run_int_read_error_Continue(k) == Idle(k)

\* The `?` of run_int on the error of read_command: run_int returns, the task ends and
\* the socket is closed.
run_int_read_error(k) == ClosedConn(k)

\* One round of run_int's loop on connection c, r what read_command returns.  The
\* read returns when the bytes received hold a command or an error, or the peer has
\* closed (an I/O error).  An error of the read, with its context, leaves the loop;
\* a command is run as in RunInt; a command of no word meets the todo!() of
\* run_command, and the task ends in a panic.
run_int_round(c, r) ==
    /\ conn[c].pc = "idle"
    /\ r.st # "eof" \/ (sock[c].eof /\ sock[c].wire = <<>>)
    /\ IF r.st = "ok" /\ Len(r.val) = 0
       THEN /\ data' = data
            /\ conn' = [conn EXCEPT ![c] = ClosedConn(@)]
            /\ sock' = [sock EXCEPT ![c].bytes = r.rest, ![c].got = Append(@, Ok(r.val))]
            /\ last' = Call("", "", [conn |-> c, cmd |-> None], <<Panic>>, {})
       ELSE IF r.st = "ok"
       THEN LET words == [i \in 1..Len(r.val) |-> String_from(r.val[i])]
                name == to_ascii_lowercase(Head(words))
                args == Tail(words)
            IN  \E o \in run_command(data, now, Command(name, args)) :
                   /\ data' = o.data
                   /\ conn' = [conn EXCEPT ![c] = task_after(@, o.ret)]
                   /\ sock' = [sock EXCEPT ![c].bytes = r.rest,
                                           ![c].got = Append(@, Ok(r.val))]
                   /\ last' = Call(name, "",
                                   [conn |-> c, cmd |-> Command(name, args)],
                                   written_after(o, to_ascii_uppercase(name)), {})
       ELSE LET e == WithContext("Reading command",
                                 IF r.st = "eof"
                                 THEN WithContext("Parsing command", [kind |-> "AsyncIoError"])
                                 ELSE r.err)
            IN  /\ data' = data
                /\ conn' = [conn EXCEPT ![c] = run_int_read_error(@)]
                /\ sock' = [sock EXCEPT ![c].bytes = Unread(r),
                                        ![c].got = Append(@, Err(e))]
                /\ last' = Call("read_command", "", [conn |-> c, cmd |-> None],
                                <<>>, {})
    /\ UNCHANGED <<now, xadds, chan, lock, serial, boot, repl>>

\* run_int reads the next command of connection c and acts on it.
ReadCommand(c) == run_int_round(c, read_command(sock[c].bytes))

----------------------------------------------------------------------------
(* The reading specification: the peer of one connection sends frames that  *)
(* cannot be read as a command, the peer of the other sends SETs, each      *)
(* after the one before it was read                                         *)

ReadFaulty == "c1"
ReadSound == "c2"

Frame_Ping == Type_write(Array(<<BulkString(<<"P", "I", "N", "G">>)>>))
Frame_Set == Type_write(Array(<<BulkString(<<"S", "E", "T">>), BulkString(<<"k", "1">>),
                                BulkString(<<"v", "1">>)>>))

\* Invalid UTF-8 in a line, a length that is not a number, a terminator that is not
\* CR LF, a type byte that is none of + $ * _, a value that is not an array, an array
\* with an item that is not a string, and a command cut short.
Frame_InvalidUtf8 == <<"*", "1", CR, LF, "+", InvalidByte, CR, LF>>
Frame_BadLength == <<"*", "x", CR, LF>>
Frame_BadTerminator == <<"*", "1", CR, "$", "4", CR, LF>>
Frame_UnknownType == <<":", "1", CR, LF>>
Frame_NotArray == Type_write(SimpleString(<<"P", "I", "N", "G">>))
Frame_NotStrings == Type_write(Array(<<Null, BulkString(<<"P", "I", "N", "G">>)>>))
Frame_CutShort == SubSeq(Frame_Ping, 1, Len(Frame_Ping) - 3)

ReadFaultyFrames ==
    {Frame_InvalidUtf8, Frame_BadLength, Frame_BadTerminator,
     Frame_UnknownType, Frame_NotArray, Frame_NotStrings, Frame_CutShort}

\* Every frame arrives whole.
ReadChunk == Len(Frame_Set)

NextRead ==
    \/ \E f \in ReadFaultyFrames : PeerSend(ReadFaulty, f)
    \/ /\ sock[ReadSound].wire = <<>> /\ sock[ReadSound].bytes = <<>>
       /\ PeerSend(ReadSound, Frame_Set)
    \/ \E c \in Conns : Arrive(c, MaxSent * ReadChunk)
    \/ PeerClose(ReadFaulty)
    \/ \E c \in Conns : ReadCommand(c)

SpecRead == Init /\ [][NextRead]_vars

----------------------------------------------------------------------------
(* Start-up: main loads the snapshot and then accepts connections           *)

\* rdb::Database as load_from_rdb uses it: the values without expiry and the values
\* with one, each by key (rdb.rs keeps the two in separate maps).
Database(keys, expiring) == [keys |-> keys, expiring |-> expiring]

\* DataStore::load_from_rdb that inserts every entry of the snapshot.
DataStore_load_from_rdb_KeepExpired(d, t, parsed) ==
    LET plain == [k \in DOMAIN d \cup DOMAIN parsed.keys |->
                     IF k \in DOMAIN parsed.keys
                     THEN DataValue(StringValue(parsed.keys[k]), None) ELSE d[k]]
        kept == DOMAIN parsed.expiring
    IN  [k \in DOMAIN plain \cup kept |->
            IF k \in kept
            THEN DataValue(StringValue(parsed.expiring[k].value),
                           Some(parsed.expiring[k].expires_at))
            ELSE plain[k]]

\* DataStore::load_from_rdb on a parsed snapshot, the clock read at t: the values
\* without expiry are inserted, then the values whose expiry is not before t.
DataStore_load_from_rdb(d, t, parsed) ==
    LET plain == [k \in DOMAIN d \cup DOMAIN parsed.keys |->
                     IF k \in DOMAIN parsed.keys
                     THEN DataValue(StringValue(parsed.keys[k]), None) ELSE d[k]]
        kept == {k \in DOMAIN parsed.expiring : ~(parsed.expiring[k].expires_at < t)}
    IN  [k \in DOMAIN plain \cup kept |->
            IF k \in kept
            THEN DataValue(StringValue(parsed.expiring[k].value),
                           Some(parsed.expiring[k].expires_at))
            ELSE plain[k]]

\* main before load_from_rdb: the listener is bound and nothing is accepted.
Booting == [pc |-> "load", load |-> None, accepted |-> {}]

\* main calls load_from_rdb.  file is None when `dir` or `dbfilename` is not
\* configured, an error when the file cannot be read or parsed, and the parsed
\* snapshot otherwise; an error is printed and main goes on.
LoadFromRdb(file) ==
    /\ boot.pc = "load"
    /\ data' = IF file.some /\ file.val.ok
               THEN DataStore_load_from_rdb(data, now, file.val.val) ELSE data
    /\ boot' = [boot EXCEPT !.pc = "accept",
                            !.load = IF file.some THEN Some([at |-> now, file |-> file.val])
                                     ELSE None]
    /\ last' = Call("load_from_rdb", "", None, None, {})
    /\ UNCHANGED <<now, xadds, cvars, sock, repl>>

\* listener.accept() returns the connection c and its task is spawned.
Accept(c) ==
    /\ boot.pc = "accept"
    /\ c \notin boot.accepted
    /\ boot' = [boot EXCEPT !.accepted = @ \cup {c}]
    /\ last' = Call("accept", "", [conn |-> c], None, {})
    /\ UNCHANGED <<data, now, xadds, cvars, sock, repl>>

----------------------------------------------------------------------------
(* The start-up specification: the server starts at any time of the clock   *)
(* with any snapshot of two keys; accepted connections list the keys        *)

BootValues == {"v1"}
BootPlain == UNION {[ks -> BootValues] : ks \in SUBSET Keys}
BootExpiring ==
    UNION {[ks -> [value : BootValues, expires_at : 0..MaxTime]] : ks \in SUBSET Keys}

\* What load_from_rdb finds: nothing configured, a file that cannot be read or parsed,
\* or a snapshot.
BootFiles ==
    {None, Some(Err([kind |-> "Context", source |-> [kind |-> "AsyncIoError"]]))}
    \cup {Some(Ok(Database(p, e))) : p \in BootPlain, e \in BootExpiring}

InitBoot ==
    /\ data = EmptyMap
    /\ now = 0
    /\ last = Call("init", "", None, None, {})
    /\ xadds = [k \in Keys |-> <<>>]
    /\ conn = [c \in Conns |-> IdleConn]
    /\ chan = [l \in Listeners \cup Senders |-> ClosedChan]
    /\ lock = None
    /\ serial = [data |-> EmptyMap, ret |-> None]
    /\ sock = [c \in Conns |-> NoBytes]
    /\ boot = Booting
    /\ repl = NoHandshake

NextBoot ==
    \/ Tick
    \/ \E f \in BootFiles : LoadFromRdb(f)
    \/ \E c \in Conns : Accept(c)
    \/ boot.accepted # {} /\ ListKeys
    \/ \E k \in Keys : boot.accepted # {} /\ Get(k)

SpecBoot == InitBoot /\ [][NextBoot]_vars

----------------------------------------------------------------------------
(* The connection to a primary: MasterConnection::init sends four commands, *)
(* each after the reply to the one before                                   *)

ListeningPort == 6380

Text_PING == <<"P", "I", "N", "G">>
Text_PONG == <<"P", "O", "N", "G">>
Text_OK == <<"O", "K">>
Text_REPLCONF == <<"R", "E", "P", "L", "C", "O", "N", "F">>
Text_PSYNC == <<"P", "S", "Y", "N", "C">>
Text_FULLRESYNC == <<"F", "U", "L", "L", "R", "E", "S", "Y", "N", "C">>

\* The commands of the handshake, as send_initial_ping, send_replconf and send_psync
\* build them.
Cmd_Ping == Array(<<BulkString(Text_PING)>>)
Cmd_ListeningPort ==
    Array(<<BulkString(Text_REPLCONF),
            BulkString(<<"l", "i", "s", "t", "e", "n", "i", "n", "g", "-", "p", "o", "r", "t">>),
            BulkString(u64_to_string(ListeningPort))>>)
Cmd_Capa ==
    Array(<<BulkString(Text_REPLCONF), BulkString(<<"c", "a", "p", "a">>),
            BulkString(<<"p", "s", "y", "n", "c", "2">>)>>)
Cmd_Psync == Array(<<BulkString(Text_PSYNC), BulkString(<<"?">>), BulkString(<<"-", "1">>)>>)

\* MasterConnection::new: no command sent, no replication id, offset -1.  (History:
\* the bytes written to the primary and the replies read.)
MasterConnection_new ==
    [pc |-> "new", sent |-> <<>>, got |-> <<>>, replication_id |-> None,
     replication_offset |-> 0 - 1, err |-> None]

UnexpectedReply(reply, expected) ==
    [kind |-> "UnexpectedReply", reply |-> reply, expected |-> expected]

\* str::starts_with
starts_with(text, prefix) ==
    Len(text) >= Len(prefix) /\ SubSeq(text, 1, Len(prefix)) = prefix

\* str::split_ascii_whitespace, on texts whose white space is the space.
split_ascii_whitespace(text) ==
    LET parts == str_split(text, " ") IN
    SelectSeq(parts, LAMBDA p : Len(p) > 0)

\* send_initial_ping that takes any reply for PONG.
send_initial_ping_reply_Any(reply) == Ok(<<>>)

\* What send_initial_ping makes of the reply.
send_initial_ping_reply(reply) ==
    IF reply.type = "SimpleString" /\ reply.str = Text_PONG THEN Ok(<<>>)
    ELSE Err(UnexpectedReply(reply, "PONG"))

\* What send_replconf makes of the reply.
send_replconf_reply(reply) ==
    IF reply.type = "SimpleString" /\ reply.str = Text_OK THEN Ok(<<>>)
    ELSE Err(UnexpectedReply(reply, "OK"))

\* What send_psync makes of the reply: the replication id and the offset.  The id is
\* assigned before the offset is parsed.
send_psync_reply(reply) ==
    IF reply.type = "SimpleString" /\ starts_with(reply.str, Text_FULLRESYNC)
    THEN LET parts == split_ascii_whitespace(reply.str) IN
         IF Len(parts) < 2
         THEN [id |-> None, offset |-> Err([kind |-> "InvalidPsyncReplyFormat"])]
         ELSE IF Len(parts) < 3
         THEN [id |-> Some(parts[2]), offset |-> Err([kind |-> "InvalidPsyncReplyFormat"])]
         ELSE LET offset == isize_parse(parts[3]) IN
              [id |-> Some(parts[2]),
               offset |-> IF offset.ok THEN offset
                          ELSE Err(WithContext("Parsing PSYNC replication offset",
                                               offset.err))]
    ELSE [id |-> None, offset |-> Err(UnexpectedReply(reply, "FULLRESYNC"))]

\* A connection to the primary is made.
Connect ==
    /\ repl.pc = "off"
    /\ repl' = MasterConnection_new
    /\ last' = Call("connect", "", None, None, {})
    /\ UNCHANGED <<data, now, xadds, cvars, sock, boot>>

\* execute_command's write: the command goes to the primary.
Written_to_primary(m, command) == [m EXCEPT !.sent = @ \o Type_write(command)]

\* init starts: send_initial_ping writes PING and waits for the reply.
SendInitialPing ==
    /\ repl.pc = "new"
    /\ repl' = [Written_to_primary(repl, Cmd_Ping) EXCEPT !.pc = "ping"]
    /\ last' = Call("init", "", None, None, {})
    /\ UNCHANGED <<data, now, xadds, cvars, sock, boot>>

\* init after the reply that was awaited: the `?` on an error, the next command
\* written otherwise, and Ok(()) after the reply to PSYNC.
handshake_step(m, reply) ==
    CASE m.pc = "ping" ->
             LET r == send_initial_ping_reply(reply) IN
             IF r.ok THEN [Written_to_primary(m, Cmd_ListeningPort) EXCEPT !.pc = "port"]
             ELSE [m EXCEPT !.pc = "failed", !.err = Some(r.err)]
      [] m.pc = "port" ->
             LET r == send_replconf_reply(reply) IN
             IF r.ok THEN [Written_to_primary(m, Cmd_Capa) EXCEPT !.pc = "capa"]
             ELSE [m EXCEPT !.pc = "failed", !.err = Some(r.err)]
      [] m.pc = "capa" ->
             LET r == send_replconf_reply(reply) IN
             IF r.ok THEN [Written_to_primary(m, Cmd_Psync) EXCEPT !.pc = "psync"]
             ELSE [m EXCEPT !.pc = "failed", !.err = Some(r.err)]
      [] m.pc = "psync" ->
             LET r == send_psync_reply(reply) IN
             IF r.offset.ok
             THEN [m EXCEPT !.pc = "done", !.replication_id = r.id,
                            !.replication_offset = r.offset.val]
             ELSE [m EXCEPT !.pc = "failed", !.err = Some(r.offset.err),
                            !.replication_id = IF r.id.some THEN r.id ELSE @]

\* execute_command's read returns: the primary has written frame (or closed, when the
\* frame is cut short).  An error of Type::parse leaves init through the `?`.
MasterReply(frame) ==
    LET r == Type_parse(frame) IN
    /\ repl.pc \in {"ping", "port", "capa", "psync"}
    /\ repl' = [(IF r.st = "ok" THEN handshake_step(repl, r.val)
                 ELSE [repl EXCEPT !.pc = "failed", !.err = Some(ParseResult(r).err)])
                EXCEPT !.got = Append(@, ParseResult(r))]
    /\ last' = Call("reply", "", None, None, {})
    /\ UNCHANGED <<data, now, xadds, cvars, sock, boot>>

----------------------------------------------------------------------------
(* The handshake specification: the primary answers with any of a few       *)
(* replies while clients set and get keys                                   *)

Reply_Fullresync ==
    SimpleString(Text_FULLRESYNC \o <<" ", "a", "b", " ", "0">>)

\* The replies of the primary: the expected ones, PONG as a bulk string, an error
\* reply, FULLRESYNC without its offset and with an offset that is not a number, and
\* a reply cut short by the close of the connection.
ReplFrames ==
    {Type_write(SimpleString(Text_PONG)), Type_write(SimpleString(Text_OK)),
     Type_write(Reply_Fullresync),
     Type_write(BulkString(Text_PONG)),
     Type_write(Type_SimpleError(Generic, <<"n", "o">>)),
     Type_write(SimpleString(Text_FULLRESYNC \o <<" ", "a", "b">>)),
     Type_write(SimpleString(Text_FULLRESYNC \o <<" ", "a", "b", " ", "x">>)),
     <<"+", "O">>}

NextRepl ==
    \/ Connect
    \/ SendInitialPing
    \/ \E f \in ReplFrames : MasterReply(f)
    \/ \E k \in Keys, v \in Values : Set(k, v, None)
    \/ \E k \in Keys : Get(k)

SpecRepl == Init /\ [][NextRepl]_vars

----------------------------------------------------------------------------
(* The ordering specification: two ID texts are converted and the IDs are    *)
(* compared both ways; the state keeps the texts and the two orderings       *)

\* The byte order of the characters an ID's text has: '-' is below the digits.
CharRank(c) == IF c = "-" THEN 0 ELSE DigitVal(c) + 1

RECURSIVE str_lt(_, _)
str_lt(s, t) ==
    IF Len(t) = 0 THEN FALSE
    ELSE IF Len(s) = 0 THEN TRUE
    ELSE IF s[1] # t[1] THEN CharRank(s[1]) < CharRank(t[1])
    ELSE str_lt(Tail(s), Tail(t))

\* The ordering of the IDs' texts instead of their numbers.
ItemId_cmp_Textual(a, b) ==
    IF str_lt(ItemId_to_string(a), ItemId_to_string(b)) THEN "Less"
    ELSE IF a = b THEN "Equal"
    ELSE "Greater"

\* #[derive(Ord)]: Ord::cmp compares field 0 and, when equal, field 1.
ItemId_cmp(a, b) ==
    IF ItemId_lt(a, b) THEN "Less"
    ELSE IF a = b THEN "Equal"
    ELSE "Greater"

OrderTexts ==
    {<<"0", "-", "0">>, <<"0", "-", "1">>, <<"1", "-", "0">>, <<"2", "-", "1", "0">>,
     <<"4", "-", "9", "9", "9">>, <<"5", "-", "2">>, <<"5", "-", "3">>,
     <<"5", "-", "1", "0">>, <<"9", "-", "0">>, <<"1", "0", "-", "0">>,
     <<"1", "0", "-", "9">>}

\* ItemId::try_from(a) and ItemId::try_from(b), then a.cmp(&b) and b.cmp(&a).
Compare(a, b) ==
    LET x == ItemId_try_from(a).val
        y == ItemId_try_from(b).val
    IN  /\ last' = Call("cmp", "", [a |-> a, b |-> b, x |-> x, y |-> y],
                        [cmp |-> ItemId_cmp(x, y), rev |-> ItemId_cmp(y, x)], {})
        /\ UNCHANGED <<data, now, xadds, cvars>>
        /\ UNCHANGED evars

NextOrder == \E a \in OrderTexts, b \in OrderTexts : Compare(a, b)

SpecOrder == Init /\ [][NextOrder]_vars

----------------------------------------------------------------------------
(* The dispatcher specification: the peer of one connection sends command   *)
(* arrays of every shape, the empty one and CONFIG without a subcommand     *)
(* among them; the peer of the other sends SETs                             *)

Frame_Empty == Type_write(Array(<<>>))
Frame_Config == Type_write(Array(<<BulkString(<<"C", "O", "N", "F", "I", "G">>)>>))
Frame_ConfigGet ==
    Type_write(Array(<<BulkString(<<"C", "O", "N", "F", "I", "G">>),
                       BulkString(<<"G", "E", "T">>), BulkString(<<"d", "i", "r">>)>>))
Frame_ConfigSet ==
    Type_write(Array(<<BulkString(<<"C", "O", "N", "F", "I", "G">>),
                       BulkString(<<"S", "E", "T">>)>>))
Frame_KeysPattern ==
    Type_write(Array(<<BulkString(<<"K", "E", "Y", "S">>), BulkString(<<"k">>)>>))
Frame_Unknown == Type_write(Array(<<BulkString(<<"F", "O", "O">>)>>))

DispatchFrames ==
    {Frame_Empty, Frame_Config, Frame_ConfigGet, Frame_ConfigSet, Frame_KeysPattern,
     Frame_Unknown, Frame_Ping, Frame_Set}

\* Every frame arrives whole.
DispatchChunk == Len(Frame_ConfigGet)

NextDispatch ==
    \/ \E f \in DispatchFrames : PeerSend(ReadFaulty, f)
    \/ /\ sock[ReadSound].wire = <<>> /\ sock[ReadSound].bytes = <<>>
       /\ PeerSend(ReadSound, Frame_Set)
    \/ \E c \in Conns : Arrive(c, MaxSent * DispatchChunk)
    \/ \E c \in Conns : ReadCommand(c)

SpecDispatch == Init /\ [][NextDispatch]_vars

----------------------------------------------------------------------------
(* The two-log specification: one connection reads the logs k1 and k2 with  *)
(* one XREAD BLOCK 0, the other adds to them and sets k2 to a text          *)

MultiReader == "c1"
MultiWriter == "c2"
MultiKeys == <<"k1", "k2">>
MultiIdTexts == {ItemId_to_string(ItemId_new(0, 1)), ItemId_to_string(ItemId_new(0, 2))}
MultiCursor == ItemId_to_string(ItemId_new(0, 1))

MultiStep(c) ==
    \/ Acquire(c)
    \/ SetBody(c)
    \/ StoreEntry(c)
    \/ XaddBody(c)
    \/ XreadCheck(c)
    \/ XreadRegister(c)
    \/ XreadRecv(c)

NextMulti ==
    \/ ConnXreadStreams(MultiReader, MultiKeys, MultiCursor, ConnBlockForever)
    \/ \E k \in Keys, id \in MultiIdTexts : ConnXadd(MultiWriter, k, id, <<"a", "x">>)
    \/ ConnSet(MultiWriter, "k2", "v1")
    \/ \E c \in Conns : MultiStep(c)

SpecMulti == Init /\ [][NextMulti]_vars

----------------------------------------------------------------------------
(* Properties *)

\* The order of entry IDs as the claims state it: epoch major, sequence minor.
LexLt(a, b) == a[1] < b[1] \/ (a[1] = b[1] /\ a[2] < b[2])
LexLe(a, b) == a = b \/ LexLt(a, b)
LexMax(ids) == CHOOSE m \in ids : \A j \in ids : LexLe(j, m)

HoldsLog(d, k) == k \in DOMAIN d /\ d[k].value.kind = "stream"
HoldsText(d, k) == k \in DOMAIN d /\ d[k].value.kind = "string"
LiveAt(dv, t) == ~dv.expires_at.some \/ t < dv.expires_at.val
TypeMismatch == [kind |-> "ExpectedOtherType", expected |-> "stream"]
WellFormedXadd(call) ==
    /\ call.op = "XADD"
    /\ Len(call.arg.fields) % 2 = 0
    /\ ItemId_try_from(call.arg.id).ok

\* C1: set(k, v, e) returns the previously stored value exactly when an entry for k
\* existed and was live at the instant of the call; it returns absent when k had no
\* entry and when the previous entry's expiry had already passed.
C1_SetReturnsLivePrevious ==
    [][last'.op = "set" =>
          LET k == last'.key IN
          IF k \in DOMAIN data /\ LiveAt(data[k], now)
          THEN last'.ret = Some(data[k].value)
          ELSE last'.ret = None]_vars

\* A set over an entry whose expiry had passed returned absent.
C1_Witness ==
    /\ last.op = "set"
    /\ last.arg.prev.some
    /\ last.arg.prev.val.expires_at.some
    /\ last.arg.prev.val.expires_at.val < now
    /\ last.ret = None

\* C2: get(k) at instant t returns the stored value exactly when the entry has no
\* expiry or t is strictly before it, and absent at the expiry instant or later;
\* set(k, v, e) stores v with the expiry e, SET k v PX n stores the expiry
\* (instant of the SET) + n, and GET replies null for an entry that is not live.
C2_GetLiveIffBeforeExpiry ==
    [][/\ last'.op = "get" =>
              LET k == last'.key IN
              last'.ret = IF k \in DOMAIN data /\ LiveAt(data[k], now)
                          THEN Some(data[k].value) ELSE None
       /\ last'.op = "GET" =>
              LET k == last'.key IN
              IF k \in DOMAIN data /\ LiveAt(data[k], now)
              THEN HoldsText(data, k) => last'.ret = BulkString(data[k].value.str)
              ELSE last'.ret = NullString
       /\ last'.op = "set" =>
              data'[last'.key] =
                  DataValue(StringValue(last'.arg.value), last'.arg.expires_at)
       /\ last'.op = "SET" =>
              data'[last'.key] =
                  DataValue(StringValue(last'.arg.value),
                            IF last'.arg.px.some THEN Some(now + last'.arg.px.val)
                            ELSE None)]_vars

\* GET at the very instant of the expiry, after time has passed, replied null.
C2_Witness ==
    /\ last.op = "GET"
    /\ last.ret = NullString
    /\ last.key \in DOMAIN data
    /\ data[last.key].expires_at = Some(now)
    /\ now > 0

\* C3: insert_log_item and register_insert_listener treat an entry whose expiry has
\* passed as absent: on a key holding an expired text value they create a log and
\* succeed, as on a missing key, instead of failing with a type mismatch.
C3_ExpiredTextIsAbsentForLogOps ==
    [][(/\ (WellFormedXadd(last') \/ last'.op = "notify")
        /\ HoldsText(data, last'.key)
        /\ ~LiveAt(data[last'.key], now))
       => /\ HoldsLog(data', last'.key)
          /\ data'[last'.key].expires_at = None
          /\ last'.op = "XADD" => last'.ret = BulkString(last'.arg.id)
          /\ last'.op = "notify" => last'.ret.ok]_vars

\* C4: insert_log_item and register_insert_listener on a key with no entry create an
\* empty log there without expiry and proceed on it; on a key holding a live text
\* value they fail with a type mismatch and leave the store exactly as it was.
C4_LazyCreateOrTypeMismatch ==
    [][(WellFormedXadd(last') \/ last'.op = "notify") =>
          LET k == last'.key IN
          /\ k \notin DOMAIN data =>
                /\ HoldsLog(data', k)
                /\ data'[k].expires_at = None
                /\ \A o \in Keys \ {k} :
                      /\ o \in DOMAIN data' <=> o \in DOMAIN data
                      /\ o \in DOMAIN data => data'[o] = data[o]
                /\ last'.op = "XADD" =>
                      /\ last'.ret = BulkString(last'.arg.id)
                      /\ Cardinality(DOMAIN data'[k].value.items) = 1
                      /\ \A id \in DOMAIN data'[k].value.items :
                            ItemId_to_string(id) = last'.arg.id
                      /\ data'[k].value.listeners = {}
                /\ last'.op = "notify" =>
                      /\ last'.ret.ok
                      /\ DOMAIN data'[k].value.items = {}
                      /\ data'[k].value.listeners = {last'.arg.listener}
          /\ (HoldsText(data, k) /\ LiveAt(data[k], now)) =>
                /\ data' = data
                /\ last'.op = "XADD" => last'.ret = SimpleError(TypeMismatch)
                /\ last'.op = "notify" => last'.ret = Err(TypeMismatch)]_vars

\* An XADD on a key holding a live text value with an expiry failed with the type
\* mismatch, and the text value is still there.
C4_Witness ==
    /\ last.op = "XADD"
    /\ last.ret = SimpleError(TypeMismatch)
    /\ HoldsText(data, last.key)
    /\ data[last.key].expires_at.some
    /\ LiveAt(data[last.key], now)

\* C5: on a log whose maximum stored ID is M, inserting the explicit ID X fails
\* exactly when X <= M; when X > M it succeeds, returns X, and X is the new maximum.
C5_RejectedIffNotGreaterThanMax ==
    [][\A x \in LogIds :
          (/\ WellFormedXadd(last')
           /\ last'.arg.id = ItemId_to_string(x)
           /\ HoldsLog(data, last'.key)
           /\ DOMAIN data[last'.key].value.items # {})
          => LET k == last'.key
                 m == LexMax(DOMAIN data[k].value.items)
             IN  /\ last'.ret.type = "SimpleError" <=> LexLe(x, m)
                 /\ LexLt(m, x) =>
                       /\ last'.ret = BulkString(ItemId_to_string(x))
                       /\ x \in DOMAIN data'[k].value.items
                       /\ LexMax(DOMAIN data'[k].value.items) = x]_vars

\* An insertion above the maximum of a non-empty log succeeded.
C5_Witness ==
    /\ last.op = "XADD"
    /\ last.ret.type = "BulkString"
    /\ LogLen(data, last.key) = 2
    /\ last.ret.str = ItemId_to_string(LexMax(DOMAIN data[last.key].value.items))

\* C6: inserting the explicit ID 0-0 fails on every log, a newly created empty log
\* included, and leaves the log without that item.
C6_ZeroZeroAlwaysRejected ==
    [][(WellFormedXadd(last') /\ last'.arg.id = <<"0", "-", "0">>) =>
          /\ last'.ret.type = "SimpleError"
          /\ HoldsLog(data', last'.key) =>
                ItemId_new(0, 0) \notin DOMAIN data'[last'.key].value.items]_vars

\* C7: an insertion rejected for its ID ordering changes nothing: the items and the
\* registered listeners are as before, no listener is notified, and the error names
\* the log's current maximum ID.
C7_RejectedInsertIsAtomic ==
    [][(/\ last'.op = "XADD"
        /\ last'.ret.type = "SimpleError"
        /\ last'.ret.err.kind = "IdIsNotGreaterThanHighestStored")
       => /\ HoldsLog(data, last'.key)
          /\ DOMAIN data[last'.key].value.items # {}
          /\ data' = data
          /\ last'.notified = {}
          /\ last'.ret.err.top = LexMax(DOMAIN data[last'.key].value.items)]_vars

\* The ID that is the log's maximum was inserted again, on a log with a registered
\* listener: the insertion failed citing that ID, and the listener is still registered.
C7_Witness ==
    /\ last.op = "XADD"
    /\ last.ret.type = "SimpleError"
    /\ last.ret.err.kind = "IdIsNotGreaterThanHighestStored"
    /\ ItemId_to_string(last.ret.err.top) = last.arg.id
    /\ data[last.key].value.listeners # {}

\* C8: in every reachable state the items of every log are strictly increasing by
\* ID, and no step on a key that keeps holding a log lowers the log's maximum ID.
C8_LogStrictlyIncreasingMaxMonotone ==
    [][\A k \in Keys :
          /\ HoldsLog(data', k) =>
                LET ids == BTreeMap_keys(DOMAIN data'[k].value.items) IN
                \A i, j \in 1..Len(ids) : i < j => LexLt(ids[i], ids[j])
          /\ (HoldsLog(data, k) /\ last'.op = "XADD") => HoldsLog(data', k)
          /\ (HoldsLog(data, k) /\ HoldsLog(data', k)
                /\ DOMAIN data[k].value.items # {})
             => /\ DOMAIN data'[k].value.items # {}
                /\ LexLe(LexMax(DOMAIN data[k].value.items),
                         LexMax(DOMAIN data'[k].value.items))]_vars

\* A log of two items after a failed insertion below its maximum.
C8_Witness ==
    /\ last.op = "XADD"
    /\ last.ret.type = "SimpleError"
    /\ LogLen(data, last.key) = 2
    /\ ItemId_try_from(last.arg.id).ok
    /\ LexLt(ItemId_try_from(last.arg.id).val, LexMax(DOMAIN data[last.key].value.items))

FullRange == [start |-> <<"-">>, end |-> <<"+">>]
BulkStrings(texts) == [i \in 1..Len(texts) |-> BulkString(texts[i])]

\* C9 as stated: XRANGE key - + returns the items of the successful XADDs, each once,
\* in insertion order, each with the ID and the fields given at insertion.
C9_XrangeReturnsFieldsAsGiven ==
    (last.op = "XRANGE" /\ last.arg = FullRange /\ HoldsLog(data, last.key)) =>
        last.ret = Array([i \in 1..Len(xadds[last.key]) |->
                             Array(<<BulkString(xadds[last.key][i].id),
                                     Array(BulkStrings(xadds[last.key][i].fields))>>)])

\* The value each field name carries after the pairs given are applied in order.
LastValueGiven(fields, name) ==
    LET i == CHOOSE h \in 1..(Len(fields) \div 2) :
                 /\ fields[2 * h - 1] = name
                 /\ \A g \in (h + 1)..(Len(fields) \div 2) : fields[2 * g - 1] # name
    IN  fields[2 * i]

NamesGiven(fields) == {fields[2 * h - 1] : h \in 1..(Len(fields) \div 2)}

\* arr lists every field name given once, in some order, each followed by its last value.
ArrangesFields(arr, fields) ==
    /\ Len(arr) = 2 * Cardinality(NamesGiven(fields))
    /\ \A n \in NamesGiven(fields) :
          \E h \in 1..(Len(arr) \div 2) :
              /\ arr[2 * h - 1] = BulkString(n)
              /\ arr[2 * h] = BulkString(LastValueGiven(fields, n))

\* C9, amended: XRANGE key - + returns one item per successful XADD, in insertion
\* order, each with the ID given and one (name, value) per field name given, carrying
\* the last value given for that name, the names in any order; and no insertion
\* removes or changes an item already in the log.
C9_AppendOnly ==
    [][/\ (last'.op = "XRANGE" /\ last'.arg = FullRange /\ HoldsLog(data, last'.key)) =>
              LET given == xadds[last'.key] IN
              /\ last'.ret.type = "Array"
              /\ Len(last'.ret.items) = Len(given)
              /\ \A i \in 1..Len(given) :
                    /\ last'.ret.items[i].items[1] = BulkString(given[i].id)
                    /\ ArrangesFields(last'.ret.items[i].items[2].items, given[i].fields)
       /\ \A k \in Keys :
              (HoldsLog(data, k) /\ last'.op = "XADD") =>
                  /\ HoldsLog(data', k)
                  /\ \A id \in DOMAIN data[k].value.items :
                        /\ id \in DOMAIN data'[k].value.items
                        /\ data'[k].value.items[id] = data[k].value.items[id]]_vars

\* XRANGE - + listed two items, the first inserted with a field name given twice.
C9_Witness ==
    /\ last.op = "XRANGE"
    /\ HoldsLog(data, last.key)
    /\ last.ret.type = "Array"
    /\ Len(last.ret.items) = 2
    /\ xadds[last.key][1].fields = <<"a", "x", "a", "y">>
    /\ xadds[last.key][2].fields = <<"a", "x", "b", "y">>

\* arr is the items of the log lg whose ID is in ids, each once, ascending by ID.
ListsAscending(arr, lg, ids) ==
    /\ Len(arr) = Cardinality(ids)
    /\ \A i \in 1..Len(arr) : \E id \in ids : arr[i] = Item_into_Type(id, lg.items[id])
    /\ \A i, j \in 1..Len(arr) :
          i < j => \E a, b \in ids :
                       /\ arr[i] = Item_into_Type(a, lg.items[a])
                       /\ arr[j] = Item_into_Type(b, lg.items[b])
                       /\ LexLt(a, b)

WithinLower(id, b) ==
    \/ b.bound = "Unbounded"
    \/ b.bound = "Included" /\ LexLe(b.id, id)
    \/ b.bound = "Excluded" /\ LexLt(b.id, id)

WithinUpper(id, b) ==
    \/ b.bound = "Unbounded"
    \/ b.bound = "Included" /\ LexLe(id, b.id)
    \/ b.bound = "Excluded" /\ LexLt(id, b.id)

ExampleLog == {ItemId_new(1, 1), ItemId_new(1, 2), ItemId_new(2, 1), ItemId_new(3, 1)}

\* C10: a range query with a lower and an upper bound, each inclusive, exclusive or
\* unbounded, returns exactly the items whose ID satisfies both bounds, ascending by
\* ID, and leaves the log as it was; XRANGE bounds are inclusive or unbounded, the
\* XREAD cursor is an exclusive lower bound; on the log 1-1, 1-2, 2-1, 3-1 XRANGE
\* 1-2 2-1 returns 1-2, 2-1 and XREAD from 2-1 returns 3-1.
C10_RangeReturnsExactlyBoundedItems ==
    [][(last'.op \in {"range", "XRANGE", "XREAD"} /\ HoldsLog(data, last'.key)) =>
          LET lg == data[last'.key].value
              ids == DOMAIN lg.items
          IN
          /\ data' = data
          /\ last'.op = "range" =>
                /\ last'.ret.some /\ last'.ret.val.ok
                /\ ListsAscending(last'.ret.val.val.items, lg,
                       {id \in ids : /\ WithinLower(id, last'.arg.start)
                                     /\ WithinUpper(id, last'.arg.end)})
          /\ last'.op = "XRANGE" =>
                /\ last'.ret.type = "Array"
                /\ ListsAscending(last'.ret.items, lg,
                       {id \in ids :
                           /\ \/ last'.arg.start = <<"-">>
                              \/ \E a \in RangeIds : /\ last'.arg.start = ItemId_to_string(a)
                                                     /\ LexLe(a, id)
                           /\ \/ last'.arg.end = <<"+">>
                              \/ \E b \in RangeIds : /\ last'.arg.end = ItemId_to_string(b)
                                                     /\ LexLe(id, b)})
                /\ (ids = ExampleLog /\ last'.arg.start = <<"1", "-", "2">>
                        /\ last'.arg.end = <<"2", "-", "1">>)
                   => last'.ret.items = <<Item_into_Type(<<1, 2>>, lg.items[<<1, 2>>]),
                                          Item_into_Type(<<2, 1>>, lg.items[<<2, 1>>])>>
          /\ last'.op = "XREAD" =>
                LET after == {id \in ids : \E a \in RangeIds :
                                 /\ last'.arg.id = ItemId_to_string(a)
                                 /\ LexLt(a, id)}
                IN  /\ after = {} => last'.ret = NullString
                    /\ after # {} =>
                          /\ last'.ret.type = "Array"
                          /\ Len(last'.ret.items) = 1
                          /\ last'.ret.items[1].items[1] = BulkString(last'.key)
                          /\ ListsAscending(last'.ret.items[1].items[2].items, lg, after)
                    /\ (ids = ExampleLog /\ last'.arg.id = <<"2", "-", "1">>)
                       => last'.ret.items[1].items[2].items =
                              <<Item_into_Type(<<3, 1>>, lg.items[<<3, 1>>])>>]_vars

\* On the log 1-1, 1-2, 2-1, 3-1 an XREAD from 2-1 replied with the single item 3-1.
C10_Witness ==
    /\ HoldsLog(data, RangeKey)
    /\ DOMAIN data[RangeKey].value.items = ExampleLog
    /\ last.op = "XREAD"
    /\ last.arg.id = <<"2", "-", "1">>
    /\ last.ret.type = "Array"
    /\ Len(last.ret.items[1].items[2].items) = 1
    /\ last.ret.items[1].items[2].items[1].items[1] = BulkString(<<"3", "-", "1">>)

\* The maximum of a log, the floor 0-0 standing for the maximum of an empty or missing log.
MaxOrFloor(d, k) ==
    IF HoldsLog(d, k) /\ DOMAIN d[k].value.items # {}
    THEN LexMax(DOMAIN d[k].value.items) ELSE <<0, 0>>

\* C11: XADD with the ID E-* assigns (E, s+1) when E is the epoch of the log's
\* maximum (E, s), the floor 0-0 counting as the maximum of an empty log, and (E, 0)
\* otherwise; the assigned ID is stored and returned when it is above the maximum,
\* and the insertion fails with the ordering error when it is not.
C11_AutoSequenceAssigned ==
    [][\A e \in LogEpochs :
          (/\ last'.op = "XADD"
           /\ last'.arg.id = u64_to_string(e) \o <<"-", "*">>
           /\ Len(last'.arg.fields) % 2 = 0
           /\ ~HoldsText(data, last'.key))
          => LET k == last'.key
                 m == MaxOrFloor(data, k)
                 x == IF e = m[1] THEN <<e, m[2] + 1>> ELSE <<e, 0>>
             IN  IF LexLt(m, x)
                 THEN /\ last'.ret = BulkString(ItemId_to_string(x))
                      /\ HoldsLog(data', k)
                      /\ x \in DOMAIN data'[k].value.items
                 ELSE last'.ret.type = "SimpleError"]_vars

\* C12: XADD with the ID * always succeeds, whatever the clock reads, and the ID it
\* assigns and stores is strictly greater than the log's maximum before the call.
C12_FullAutoNeverRegresses ==
    [][(/\ last'.op = "XADD"
        /\ last'.arg.id = <<"*">>
        /\ Len(last'.arg.fields) % 2 = 0
        /\ ~HoldsText(data, last'.key))
       => /\ last'.ret.type = "BulkString"
          /\ HoldsLog(data', last'.key)
          /\ \E x \in DOMAIN data'[last'.key].value.items :
                /\ last'.ret.str = ItemId_to_string(x)
                /\ LexLt(MaxOrFloor(data, last'.key), x)]_vars

\* The listeners registered on the log of key k; none when k holds no log.
ListenersOf(d, k) == IF HoldsLog(d, k) THEN d[k].value.listeners ELSE {}

\* The message of a successful XADD: key, stored ID and the fields given.
IsItemOf(msg, call) ==
    /\ msg[1] = call.key
    /\ ItemId_to_string(msg[2]) = call.arg.id
    /\ msg[3] \in HashMap_iter_orders(xadd_items(call.arg.fields, EmptyMap).val)

InBlockingRead(c) == conn[c].pc # "idle" /\ conn[c].call = "notify"

\* The log the blocking read of c is on holds an item after the read's cursor.
ItemAfterCursor(c) ==
    /\ HoldsLog(data, conn[c].cmd.key)
    /\ \E id \in DOMAIN data[conn[c].cmd.key].value.items : LexLt(conn[c].cmd.start, id)

\* The reply of a blocking read that returns one item: [[key, [[id, fields]]]].
OneItemReply(key, id, payload) ==
    Array(<<Array(<<BulkString(key), Array(<<Item_into_Type(id, payload)>>)>>)>>)

\* C14: a reader in a blocking read without timeout whose range check found nothing,
\* and into whose log another connection then inserts an item after the cursor,
\* eventually replies, and its reply is exactly one item of that log under that key.
C14_RacingInsertIsReturned ==
    /\ \A c \in Conns :
          (InBlockingRead(c) /\ conn[c].cmd.block = Some(0) /\ ItemAfterCursor(c))
             ~> (conn[c].pc = "idle")
    /\ [][\A c \in Conns :
            (InBlockingRead(c) /\ conn[c].cmd.block = Some(0) /\ conn'[c].pc = "idle") =>
               \E id \in DOMAIN data[conn[c].cmd.key].value.items :
                  /\ LexLt(conn[c].cmd.start, id)
                  /\ last'.ret = OneItemReply(conn[c].cmd.key, id,
                                              data[conn[c].cmd.key].value.items[id])
         ]_vars

\* Connection c waits in a blocking read with a positive timeout.
TimedWait(c) == conn[c].pc = "wait" /\ conn[c].deadline.some

\* The insertions into the log of c's read that took effect since c registered.
InsertedSince(c) ==
    SubSeq(xadds[conn[c].cmd.key], conn[c].since + 1, Len(xadds[conn[c].cmd.key]))

\* The one-item reply for an insertion recorded in the history.
ReplyOfInsertion(key, x) ==
    OneItemReply(key, ItemId_try_from(x.id).val,
                 CHOOSE p \in HashMap_iter_orders(xadd_items(x.fields, EmptyMap).val) : TRUE)

\* C15 as stated: a blocking read with a positive timeout into whose log no insertion
\* took effect before the deadline replies with a null reply.
C15_NoInsertBeforeDeadlineRepliesNull ==
    [][\A c \in Conns :
          (/\ TimedWait(c)
           /\ conn'[c].pc = "idle"
           /\ \A i \in 1..Len(InsertedSince(c)) :
                  InsertedSince(c)[i].at >= conn[c].deadline.val)
             => last'.ret = NullString
      ]_vars

\* C15, amended: a blocking read with a positive timeout can reply null as soon as the
\* deadline has passed and never before; it replies null when no insertion into its
\* log took effect between its registration and its reply, and otherwise with the
\* first item inserted after its registration; its channel is gone with the reply.  An
\* insertion that later sends to the listener of a read that timed out completes with
\* its ordinary reply, and the send is dropped.
C15_TimeoutRepliesNull ==
    [][\A c \in Conns :
          /\ (TimedWait(c) /\ now >= conn[c].deadline.val) => ENABLED XreadTimeout(c)
          /\ (TimedWait(c) /\ conn'[c].pc = "idle") =>
                /\ last'.ret = NullString => now >= conn[c].deadline.val
                /\ InsertedSince(c) = <<>> => last'.ret = NullString
                /\ last'.ret # NullString =>
                      /\ InsertedSince(c) # <<>>
                      /\ last'.ret = ReplyOfInsertion(conn[c].cmd.key, InsertedSince(c)[1])
                /\ chan'[conn[c].tx] = ClosedChan
          /\ (/\ conn[c].pc = "entry" /\ conn[c].call = "insert"
              /\ conn'[c].pc = "idle" /\ last'.ret.type = "BulkString") =>
                /\ last'.ret = BulkString(conn[c].cmd.text)
                /\ \A l \in last'.notified :
                      chan[l] = ClosedChan => chan'[l] = ClosedChan
      ]_vars

\* Connection c1 timed out in a blocking read on k1 and then added an item to k1
\* itself: the insertion sent to c1's abandoned listener and replied with its ID.
C15_Witness ==
    /\ last.op = "XADD" /\ last.arg.conn = "c1" /\ last.ret.type = "BulkString"
    /\ Tx("c1", 1) \in last.notified
    /\ chan[Tx("c1", 1)] = ClosedChan
    /\ conn["c1"].pc = "idle"

\* Some connection is waiting in a blocking read.
SomeoneWaits == \E w \in Conns : conn[w].pc = "wait"

\* The task of c is inside a store call: it holds the guard.
InStoreCall(c) == conn[c].pc \in {"held", "entry"}

\* C16: a task that waits in a blocking read does not hold the store lock.  The lock
\* is held only by a task inside a store call (set, get, get_ref, insert_stream_item,
\* notify_on_stream_insert or keys).  While some connection waits, a task that wants
\* the lock can take it when it is free and a task inside a store call can take its
\* next step, so every store call of another connection can acquire the lock and
\* complete.
C16_BlockedReaderHoldsNoLock ==
    /\ \A c \in Conns : conn[c].pc = "wait" => lock # Some(c)
    /\ \A c \in Conns : lock = Some(c) <=> InStoreCall(c)
    /\ \A c \in Conns : (SomeoneWaits /\ InStoreCall(c)) => ENABLED ConnStep(c)
    /\ \A c \in Conns :
          (SomeoneWaits /\ conn[c].pc = "lock" /\ lock = None) => ENABLED Acquire(c)

\* While c1 waits in a blocking read, c2 holds the lock inside DataStore::set.
C16_Witness ==
    /\ conn["c1"].pc = "wait"
    /\ lock = Some("c2")
    /\ conn["c2"].pc = "held" /\ conn["c2"].call = "set"

\* The items of the log of key k; none when k holds no log.
ItemsOf(d, k) == IF HoldsLog(d, k) THEN DOMAIN d[k].value.items ELSE {}

\* C17: in a blocking read no insertion takes effect between the range check that
\* found nothing and the registration of the listener, and there is no lost wake-up:
\* a reader that waits with nothing in its channel has no item after its cursor in
\* its log.
C17_CheckAndRegisterAreAtomic ==
    [][\A c \in Conns :
          /\ (InBlockingRead(c) /\ conn[c].pc # "wait") =>
                ItemsOf(data', conn[c].cmd.key) = ItemsOf(data, conn[c].cmd.key)
          /\ (InBlockingRead(c) /\ conn[c].pc = "wait" /\ chan[conn[c].tx].buf = <<>>) =>
                ~ItemAfterCursor(c)
      ]_vars

\* C18: store calls are atomic and totally ordered.  At most one task is inside a
\* store call, and while it is, no other task's step changes the mapping.  When a call
\* ends, the mapping and the call's result are those of running all calls so far one
\* at a time in the order they acquired the lock (the history `serial`); between
\* calls the mapping is that of the serial run.
C18_StoreCallsAreSerialized ==
    [][/\ \A c, o \in Conns : (InStoreCall(c) /\ InStoreCall(o)) => c = o
       /\ lock = None => data = serial.data
       /\ \A c \in Conns :
             /\ (InStoreCall(c) /\ data' # data) => conn'[c] # conn[c]
             /\ (lock = Some(c) /\ lock' = None) =>
                   /\ data' = serial.data
                   /\ Some(DataStore_call(data, conn[c]).ret) = serial.ret
      ]_vars

\* c2 is inside DataStore::set on k2, not yet done, while c1 waits for the lock to
\* insert into k1.
C18_Witness ==
    /\ lock = Some("c2")
    /\ conn["c2"].pc = "held" /\ conn["c2"].call = "set"
    /\ conn["c1"].pc = "lock" /\ conn["c1"].call = "insert"
    /\ serial.data # data

\* The entry IDs, as text, that a range reply lists, in the reply's order.
ReplyIds(reply) == [i \in 1..Len(reply.items) |-> reply.items[i].items[1].str]

\* The entry IDs, as text, of the insertions that took effect on key k, in that order.
InsertionOrder(k) == [i \in 1..Len(xadds[k]) |-> xadds[k][i].id]

IsPrefix(a, b) == Len(a) <= Len(b) /\ SubSeq(b, 1, Len(a)) = a

\* C19: with connections inserting into a log concurrently, the entry IDs of every
\* XRANGE key - + reply are exactly the insertions that took effect on that key, in
\* the order they took effect; that order only grows, so a reply extends the reply
\* before it, by the same or by another reader, without reordering or dropping items.
C19_RangeReadsFollowInsertionOrder ==
    [][/\ \A k \in ConnLogKeys : IsPrefix(InsertionOrder(k), InsertionOrder(k)')
       /\ \A c \in Conns :
             (/\ conn[c].pc = "held" /\ conn[c].call = "xrange"
              /\ conn'[c].pc = "idle" /\ HoldsLog(data, conn[c].cmd.key)) =>
                /\ last'.ret.type = "Array"
                /\ ReplyIds(last'.ret) = InsertionOrder(conn[c].cmd.key)
                /\ (last.op = "XRANGE" /\ last.key = conn[c].cmd.key
                       /\ last.ret.type = "Array") =>
                      IsPrefix(ReplyIds(last.ret), ReplyIds(last'.ret))
      ]_vars

\* c2 has read both items of k1 in the order they were inserted while c1 is on its
\* way to insert again.
C19_Witness ==
    /\ last.op = "XRANGE" /\ last.arg.conn = "c2" /\ last.ret.type = "Array"
    /\ ReplyIds(last.ret) = InsertionOrder("k1")
    /\ Len(last.ret.items) = 2
    /\ conn["c1"].pc = "lock" /\ conn["c1"].call = "insert"

\* The command lacks an argument its handler asks for.
LacksArgument(cmd) ==
    LET n == Len(cmd.args) IN
    CASE cmd.name = "get" -> n < 1
      [] cmd.name = "set" -> n < 2
      [] cmd.name = "keys" -> n < 1
      [] cmd.name = "xrange" -> n < 3
      [] cmd.name = "xadd" -> n < 2 \/ (n - 2) % 2 = 1
      [] cmd.name = "xread" -> n >= 1 /\ cmd.args[1] = "STREAMS" /\ (n - 1) % 2 = 1
      [] OTHER -> FALSE

\* No handler has the command's name.
UnknownCommand(cmd) ==
    cmd.name \notin {"ping", "get", "set", "xadd", "xrange", "xread", "keys"}

\* The command is complete and the entry ID it gives is not of the form number-number.
MalformedId(cmd) ==
    /\ ~LacksArgument(cmd)
    /\ \/ cmd.name = "xadd" /\ cmd.args[2] \in CmdBadIds
       \/ cmd.name = "xrange" /\ cmd.args[2] \in CmdBadIds
       \/ cmd.name = "xread" /\ Len(cmd.args) = 3 /\ cmd.args[3] \in CmdBadIds

\* The command is well formed and its key holds a value of the other kind.
WrongTypeAccess(cmd, d, t) ==
    /\ ~LacksArgument(cmd) /\ ~MalformedId(cmd)
    /\ \/ cmd.name = "xadd" /\ HoldsText(d, cmd.args[1])
       \/ cmd.name = "xrange" /\ HoldsText(d, cmd.args[1]) /\ LiveAt(d[cmd.args[1]], t)
       \/ /\ cmd.name = "xread" /\ Len(cmd.args) = 3
          /\ HoldsText(d, cmd.args[2]) /\ LiveAt(d[cmd.args[2]], t)
       \/ cmd.name = "get" /\ HoldsLog(d, cmd.args[1])

\* The command is a well-formed XADD whose ID is not above the top of its log.
OrderingViolation(cmd, d) ==
    /\ cmd.name = "xadd" /\ ~LacksArgument(cmd) /\ ~MalformedId(cmd)
    /\ HoldsLog(d, cmd.args[1])
    /\ ItemsOf(d, cmd.args[1]) # {}
    /\ LexLe(ItemId_try_from(cmd.args[2]).val, LexMax(ItemsOf(d, cmd.args[1])))

\* The kinds of error each of these faults is reported with.
FaultKinds(cmd, d, t) ==
    IF LacksArgument(cmd) THEN {"MissingArgument"}
    ELSE IF UnknownCommand(cmd) THEN {"UnimplementedCommand"}
    ELSE IF MalformedId(cmd) THEN {"MissingDash", "TooManyDashes", "NotANumber"}
    ELSE IF WrongTypeAccess(cmd, d, t) THEN {"ExpectedOtherType", "Unimplemented"}
    ELSE IF OrderingViolation(cmd, d) THEN {"IdIsNotGreaterThanHighestStored"}
    ELSE {}

\* The commands outside the faults above that the dispatcher also answers with an
\* error or ends the connection on: KEYS with a pattern, XREAD with a stray argument.
OtherFault(cmd) ==
    \/ cmd.name = "keys" /\ Len(cmd.args) >= 1 /\ cmd.args[1] # "*"
    \/ cmd.name = "xread" /\ Len(cmd.args) >= 1 /\ cmd.args[1] # "STREAMS"

\* C20: a command with a missing argument, an unknown name, a wrong-type access, a log
\* ordering violation or a malformed entry ID gets exactly one reply, a simple error of
\* the matching kind, and its connection stays open; a command without any fault,
\* whether or not the command before it on the connection failed, gets exactly one
\* reply that is not an error.
C20_CommandErrorsAreNonFatal ==
    [][LET c == last'.arg.conn
           cmd == last'.arg.cmd
           kinds == FaultKinds(cmd, data, now)
       IN  /\ kinds # {} =>
                /\ Len(last'.ret) = 1
                /\ last'.ret[1].type = "SimpleError"
                /\ last'.ret[1].err.kind \in kinds
                /\ conn'[c].pc = "idle"
           /\ (kinds = {} /\ ~OtherFault(cmd)) =>
                /\ Len(last'.ret) = 1
                /\ last'.ret[1].type # "SimpleError"
                /\ conn'[c].pc = "idle"
      ]_vars

\* XADD k1 0-1 a x was answered with the ordering error on connection c1 (0-1 is the
\* top of k1), directly after an error reply on c1, and c1 is open.
C20_Witness ==
    /\ last.op = "xadd" /\ last.arg.conn = "c1" /\ last.arg.after_error
    /\ last.arg.cmd.args = <<"k1", <<"0", "-", "1">>, "a", "x">>
    /\ Len(last.ret) = 1 /\ last.ret[1].type = "SimpleError"
    /\ last.ret[1].err = [kind |-> "IdIsNotGreaterThanHighestStored",
                          top |-> ItemId_new(0, 1)]
    /\ conn["c1"].pc = "idle"
----------------------------------------------------------------------------
\* C25: list_keys returns exactly the keys that are in the mapping when it is called,
\* whether their entries have expired or not: a key with an expired entry is listed
\* although get on it returns nothing.
C25_KeysListsExpiredEntries ==
    last.op = "keys" =>
        /\ last.ret = DOMAIN data
        /\ \A k \in DOMAIN data :
               IsExpired(data[k], now) =>
                   k \in last.ret /\ DataStore_get(data, now, k) = None

\* KEYS has listed a key whose entry has expired.
C25_Witness ==
    /\ last.op = "keys"
    /\ \E k \in last.ret : IsExpired(data[k], now) /\ ~DataStore_get(data, now, k).some
    /\ \E k \in last.ret : ~IsExpired(data[k], now)
----------------------------------------------------------------------------
\* C26: set overwrites unconditionally: after set(k, v, e) the entry of k is exactly
\* (v, e), whatever k held before, and no other entry has changed; a get(k) that
\* follows while e is live returns v.
C26_SetOverwritesUnconditionally ==
    [][/\ last'.op = "set" =>
             /\ last'.key \in DOMAIN data'
             /\ data'[last'.key] = DataValue(StringValue(last'.arg.value),
                                              last'.arg.expires_at)
             /\ \A k \in (DOMAIN data \cup DOMAIN data') \ {last'.key} :
                    k \in DOMAIN data /\ k \in DOMAIN data' /\ data'[k] = data[k]
       /\ (last.op = "set" /\ last'.op = "get" /\ last'.key = last.key
            /\ (last.arg.expires_at.some => now' < last.arg.expires_at.val)) =>
             last'.ret = Some(StringValue(last.arg.value))]_vars

\* A set has replaced a log that had items and a registered listener, with a value that
\* has not expired.
C26_Witness ==
    /\ last.op = "set"
    /\ last.arg.prev.some
    /\ last.arg.prev.val.value.kind = "stream"
    /\ DOMAIN last.arg.prev.val.value.items # {}
    /\ last.arg.prev.val.value.listeners # {}
    /\ last.arg.expires_at.some /\ now < last.arg.expires_at.val
    /\ data[last.key].value = StringValue(last.arg.value)
----------------------------------------------------------------------------
\* C29: in XREAD the id `$` is the log's current tail: the read returns no item that was
\* in the log when the XREAD was received.  A read without BLOCK is one step, so every
\* item it could return was there before it, and its reply has to be the null reply.
C29_DollarReturnsNoExistingItem ==
    (last.op = "XREAD" /\ last.arg.id = <<"$">>) => last.ret = NullString
----------------------------------------------------------------------------
\* An XADD that gave a complete command and a well-formed ID.
IsXaddOf(call, id) ==
    /\ call.op = "xadd" /\ Len(call.arg.cmd.args) = 4
    /\ call.arg.cmd.args[2] = id

\* The XADD was answered with one simple error whose message is the given text, with
\* the upper-cased name of the command in it.
AnsweredWith(call, text) ==
    /\ Len(call.ret) = 1
    /\ call.ret[1].type = "SimpleError"
    /\ call.ret[1].message.text = text
    /\ call.ret[1].message.cmd = "XADD"

\* An XADD whose ID is not 0-0 and not above the top of its log is answered with the
\* message of the ordering violation.
OrderingViolationIsNamed ==
    [][\A id \in CmdGoodIds :
          (IsXaddOf(last', id) /\ OrderingViolation(last'.arg.cmd, data)) =>
              AnsweredWith(last',
                  "The ID specified in {cmd} is equal or smaller than the target stream top item")
      ]_vars

\* An XADD of 0-0 is answered with the message that the ID must be greater than 0-0,
\* whether its log is empty or not.
ZeroIdIsNamed ==
    [][(IsXaddOf(last', CmdZeroId) /\ ~HoldsText(data, last'.arg.cmd.args[1])) =>
          AnsweredWith(last', "The ID specified in {cmd} must be greater than 0-0")
      ]_vars

\* C22: a log-ordering violation is answered with the message that the ID is equal or
\* smaller than the target log's top item, an ID of 0-0 with the message that the ID
\* must be greater than 0-0 (also on a log that has items); both messages name the
\* upper-cased command.
C22_ErrorMessages == OrderingViolationIsNamed /\ ZeroIdIsNamed
----------------------------------------------------------------------------
\* The places of the separator in a text.
Dashes(text) == {i \in 1..Len(text) : text[i] = "-"}

\* One or more decimal digits.
IsDigits(t) == Len(t) > 0 /\ \A i \in 1..Len(t) : IsDigit(t[i])

\* A decimal unsigned 64-bit number: digits only, with a value up to 2^64 - 1.
IsPlainNumber(t) == IsDigits(t) /\ ~u64_overflows(t)

\* What str::parse::<u64> takes: such a number, or one with a '+' before it.
IsSignedNumber(t) ==
    \/ IsPlainNumber(t)
    \/ Len(t) > 1 /\ t[1] = "+" /\ IsPlainNumber(Tail(t))

\* The value of a number, with or without the '+'.
NumberValue(t) == DecimalValue(IF t[1] = "+" THEN Tail(t) ELSE t)

\* The two sides of the only separator of a text.
Before(text) == SubSeq(text, 1, (CHOOSE i \in Dashes(text) : TRUE) - 1)
After(text) == SubSeq(text, (CHOOSE i \in Dashes(text) : TRUE) + 1, Len(text))

\* The errors of a text that is not an entry ID, by cause.
ParseErrorByCause(text, ret) ==
    /\ Cardinality(Dashes(text)) = 0 => ret.err.kind = "MissingDash"
    /\ Cardinality(Dashes(text)) > 1 => ret.err.kind = "TooManyDashes"
    /\ Cardinality(Dashes(text)) = 1 => ret.err.kind = "NotANumber"

\* The four texts that stream.rs's test parses.
ParsesTheExamples(text, ret) ==
    /\ text = <<"0", "-", "1">> => ret = Ok(ItemId_new(0, 1))
    /\ text = <<"9", "9", "9", "-", "0">> => ret = Ok(ItemId_new(999, 0))
    /\ text \in {<<"-", "1">>, <<"0", "-", "1", "-">>} => ~ret.ok

\* C30 as stated: parsing succeeds exactly when the text is two decimal unsigned 64-bit
\* numbers with a single '-' between them, and gives that pair; otherwise it fails with
\* the error of the cause.
C30_ParsesExactlyTwoPlainNumbers ==
    last.op = "try_from" =>
        LET text == last.arg.text
            wellformed == /\ Cardinality(Dashes(text)) = 1
                          /\ IsPlainNumber(Before(text)) /\ IsPlainNumber(After(text))
        IN  /\ last.ret.ok <=> wellformed
            /\ wellformed =>
                   last.ret.val = ItemId_new(NumberValue(Before(text)),
                                             NumberValue(After(text)))
            /\ ~wellformed => ParseErrorByCause(text, last.ret)
            /\ ParsesTheExamples(text, last.ret)

\* C30, amended: parsing succeeds exactly when the text has a single '-' and each side
\* of it is one or more decimal digits, with or without a '+' before them, whose value
\* fits 64 bits; it gives the pair of the two values.  Otherwise it fails: with
\* MissingDash without a '-', with TooManyDashes with more than one, and with
\* NotANumber when a side is empty, not a number or out of range.
C30_ParsesExactlyTwoNumbers ==
    last.op = "try_from" =>
        LET text == last.arg.text
            wellformed == /\ Cardinality(Dashes(text)) = 1
                          /\ IsSignedNumber(Before(text)) /\ IsSignedNumber(After(text))
        IN  /\ last.ret.ok <=> wellformed
            /\ wellformed =>
                   last.ret.val = ItemId_new(NumberValue(Before(text)),
                                             NumberValue(After(text)))
            /\ ~wellformed => ParseErrorByCause(text, last.ret)
            /\ ParsesTheExamples(text, last.ret)

\* The text +1-0 was parsed and gave the ID 1-0.
C30_Witness ==
    /\ last.op = "try_from"
    /\ last.arg.text = <<"+", "1", "-", "0">>
    /\ last.ret = Ok(ItemId_new(1, 0))
----------------------------------------------------------------------------

\* C23: for every value of every variant (simple error, simple string, bulk string,
\* null bulk string, array, null array, null), nested to a bounded depth and with texts
\* free of CR and LF, parsing the bytes that writing the value gave succeeds, reads
\* all the bytes and gives a value equal to the one written.
C23_WriteThenParseRoundTrips ==
    last.op = "write_parse" => last.ret = Parsed(last.arg.value, <<>>)
----------------------------------------------------------------------------

\* The encodings of the frames one after the other.
RECURSIVE Concat(_)
Concat(frames) == IF Len(frames) = 0 THEN <<>> ELSE Head(frames) \o Concat(Tail(frames))

\* The frames the peer wrote that no read has returned yet.
FramesLeft(c) == SubSeq(sock[c].sent, Len(sock[c].got) + 1, Len(sock[c].sent))

\* C24: a successful parse takes exactly the bytes of one value.  When the bytes sent
\* are the encodings of v1..vn one after the other (arrays and bulk strings with CR or
\* LF in the payload among them), the i-th parse returns vi, the bytes not yet read
\* are exactly the encodings of the values not yet returned (none after the n-th
\* parse), and a parse returns as soon as the bytes of its value have arrived,
\* whatever the chunks in which they arrive.
C24_ParseConsumesExactlyOneValue ==
    LET s == sock[StreamConn]
        n == Len(s.got)
    IN  /\ n <= Len(s.sent)
        /\ \A i \in 1..n :
               \E v \in StreamValues : s.sent[i] = Type_write(v) /\ s.got[i] = Ok(v)
        /\ s.bytes \o s.wire = Concat(FramesLeft(StreamConn))
        /\ (n < Len(s.sent) /\ Len(s.bytes) >= Len(s.sent[n + 1]))
               => Type_parse(s.bytes).st = "ok"

\* Two values, a bulk string with CR LF in its payload and a nested array, have been
\* sent and both parses have returned; nothing is left unread.
C24_Witness ==
    LET s == sock[StreamConn] IN
    /\ s.sent = <<Type_write(BulkString(<<"a", CR, LF>>)),
                  Type_write(Array(<<Array(<<BulkString(<<CR, LF>>)>>), Null>>))>>
    /\ Len(s.got) = 2
    /\ s.bytes = <<>> /\ s.wire = <<>>
----------------------------------------------------------------------------

\* The read of connection c that this step completes, if it completes one.
ReadReturns(c) == Len(sock'[c].got) = Len(sock[c].got) + 1
ReadResult(c) == sock'[c].got[Len(sock'[c].got)]

\* The causes of a failed read: an I/O error, a decode error of Type::parse, and a
\* value that is not an array of strings.
ReadFaults ==
    {"AsyncIoError", "Utf8Error", "PraseIntError", "InvalidCrLfTerminator",
     "UnknownTypeSpecifier", "UnexpectedCommandType"}

\* The error at the bottom of the contexts.
RECURSIVE Cause(_)
Cause(e) == IF e.kind = "Context" THEN Cause(e.source) ELSE e

\* C21: an I/O error or a decode error while a command is read (invalid UTF-8, a
\* length that is not a number, a bad CR LF terminator, an unknown type byte, a value
\* that is not an array of strings) ends the connection: the loop terminates, no reply
\* is written for the failed read, and from then on nothing the connection receives is
\* read as a command; the other connections and the store are left as they were.
C21_ReadErrorEndsConnection ==
    [][\A c \in Conns :
        /\ (ReadReturns(c) /\ ~ReadResult(c).ok) =>
               /\ Cause(ReadResult(c).err).kind \in ReadFaults
               /\ conn'[c].pc = "closed"
               /\ last'.ret = <<>>
               /\ data' = data
               /\ \A o \in Conns \ {c} : conn'[o] = conn[o] /\ sock'[o] = sock[o]
        /\ conn[c].pc = "closed" =>
               /\ conn'[c].pc = "closed"
               /\ sock'[c].got = sock[c].got
               /\ \/ last'.op \in {"send", "arrive", "close"}
                  \/ last'.arg.conn # c]_vars

\* The first connection was closed by a read that failed while bytes it had received
\* were still unread, and the other connection has run a SET since: the store holds
\* its value.
C21_Witness ==
    /\ conn[ReadFaulty].pc = "closed"
    /\ Len(sock[ReadFaulty].got) = 1
    /\ ~sock[ReadFaulty].got[1].ok
    /\ Len(sock[ReadFaulty].bytes) > 0
    /\ conn[ReadSound].pc = "idle"
    /\ last.op = "set" /\ last.arg.conn = ReadSound /\ last.ret = <<SimpleString("OK")>>
    /\ "k1" \in DOMAIN data
----------------------------------------------------------------------------

\* The snapshot that was loaded, if loading has finished with one.
Loaded == boot.load.some /\ boot.load.val.file.ok
LoadedFile == boot.load.val.file.val
LoadedAt == boot.load.val.at

\* The entries of the snapshot that loading dropped: expired when it was loaded.
Dropped == {k \in DOMAIN LoadedFile.expiring : LoadedFile.expiring[k].expires_at < LoadedAt}

\* C27: loading the snapshot completes or fails before the first connection is
\* accepted, and it inserts no entry that is already expired when it is loaded: once
\* loading has finished, every key loaded with an expiry has an expiry that was not
\* in the past at the time of loading, and a dropped entry is not among the keys
\* listed (its key is listed only if the snapshot also has it without expiry, and
\* then with that value).
C27_LoadBeforeAcceptDropsExpired ==
    /\ boot.pc = "load" => (boot.accepted = {} /\ data = EmptyMap)
    /\ boot.accepted # {} => boot.pc = "accept"
    /\ (boot.pc = "accept" /\ ~Loaded) => data = EmptyMap
    /\ (boot.pc = "accept" /\ Loaded) =>
           /\ \A k \in DOMAIN data :
                  data[k].expires_at.some =>
                      /\ k \in DOMAIN LoadedFile.expiring
                      /\ data[k].expires_at.val = LoadedFile.expiring[k].expires_at
                      /\ ~(data[k].expires_at.val < LoadedAt)
           /\ \A k \in Dropped :
                  k \in DataStore_keys(data) =>
                      /\ k \in DOMAIN LoadedFile.keys
                      /\ data[k] = DataValue(StringValue(LoadedFile.keys[k]), None)
           /\ \A k \in (DOMAIN LoadedFile.keys \cup DOMAIN LoadedFile.expiring) \ Dropped :
                  k \in DataStore_keys(data)

\* The snapshot was loaded at time 1 with k1 expired at 0 and k2 expiring at 2; a
\* connection was accepted afterwards and the keys listed are k2 alone.
C27_Witness ==
    /\ Loaded /\ LoadedAt = 1
    /\ LoadedFile = Database(EmptyMap, [k \in Keys |->
                                 [value |-> "v1", expires_at |-> IF k = "k1" THEN 0 ELSE 2]])
    /\ boot.accepted # {}
    /\ last.op = "keys" /\ last.ret = {"k2"}
----------------------------------------------------------------------------

\* The four commands of the handshake in their order, as bytes.
HandshakeCommands ==
    <<Type_write(Cmd_Ping), Type_write(Cmd_ListeningPort), Type_write(Cmd_Capa),
      Type_write(Cmd_Psync)>>

\* The replies that let the handshake go on: PONG, OK, OK.
HandshakeReplies == <<SimpleString(Text_PONG), SimpleString(Text_OK), SimpleString(Text_OK)>>

\* The number of commands written so far.
Sent(m) ==
    CASE m.pc \in {"off", "new"} -> 0
      [] m.pc = "failed" -> Len(m.got)
      [] m.pc = "done" -> 4
      [] m.pc = "ping" -> 1
      [] m.pc = "port" -> 2
      [] m.pc = "capa" -> 3
      [] m.pc = "psync" -> 4

\* C28: the handshake sends PING, REPLCONF listening-port, REPLCONF capa psync2 and
\* PSYNC in that order, each command only after the expected reply to the one before
\* it has been received (PONG, OK, OK); an unexpected reply at any step aborts the
\* handshake with an error and no later command of the handshake is sent; the
\* handshake never changes the store.
C28_HandshakeInOrder ==
    [][/\ repl.pc # "off" =>
            LET n == Sent(repl) IN
            /\ repl.sent = Concat(SubSeq(HandshakeCommands, 1, n))
            /\ Len(repl.got) \in {n - 1, n}
            /\ \A i \in 1..(n - 1) : repl.got[i] = Ok(HandshakeReplies[i])
            /\ (Len(repl.got) = n /\ n > 0) =>
                   /\ repl.pc \in {"done", "failed"}
                   /\ repl.pc = "failed" <=> repl.err.some
                   /\ n < 4 => (repl.pc = "failed" /\ repl.got[n] # Ok(HandshakeReplies[n]))
                   /\ n = 4 => (repl.pc = "done" <=> repl.got[4] = Ok(Reply_Fullresync))
       /\ repl.pc \in {"done", "failed"} => repl' = repl
       /\ repl' # repl => data' = data]_vars

\* The handshake was aborted by the reply to the second command (PONG again, where OK
\* was expected): two commands were written, and a key has been set since.
C28_Witness ==
    /\ repl.pc = "failed"
    /\ repl.sent = Type_write(Cmd_Ping) \o Type_write(Cmd_ListeningPort)
    /\ repl.got = <<Ok(SimpleString(Text_PONG)), Ok(SimpleString(Text_PONG))>>
    /\ repl.err = Some(UnexpectedReply(SimpleString(Text_PONG), "OK"))
    /\ last.op = "set" /\ "k1" \in DOMAIN data
----------------------------------------------------------------------------

\* The IDs of the ordering specification's texts.
OrderIds == {ItemId_try_from(text).val : text \in OrderTexts}

\* C31: entry IDs are totally ordered lexicographically with the epoch major and the
\* sequence minor: (t1, s1) < (t2, s2) exactly when t1 < t2, or t1 = t2 and s1 < s2.
\* The comparison is on the numbers of the two texts, not on the texts, it is total
\* (exactly one of less, equal and greater, and the reverse comparison agrees) and
\* transitive, and 5-3 > 5-2 > 4-999.
C31_IdsOrderedByEpochThenSequence ==
    last.op = "cmp" =>
        LET t1 == NumberValue(Before(last.arg.a))
            s1 == NumberValue(After(last.arg.a))
            t2 == NumberValue(Before(last.arg.b))
            s2 == NumberValue(After(last.arg.b))
            less == t1 < t2 \/ (t1 = t2 /\ s1 < s2)
            same == t1 = t2 /\ s1 = s2
        IN  /\ last.ret.cmp = "Less" <=> less
            /\ last.ret.cmp = "Equal" <=> same
            /\ last.ret.cmp = "Greater" <=> (~less /\ ~same)
            /\ last.ret.rev = "Less" <=> last.ret.cmp = "Greater"
            /\ last.ret.rev = "Equal" <=> last.ret.cmp = "Equal"
            /\ \A z \in OrderIds :
                   (last.ret.cmp = "Less" /\ ItemId_cmp(last.arg.y, z) = "Less")
                       => ItemId_cmp(last.arg.x, z) = "Less"
            /\ (last.arg.a = <<"5", "-", "3">> /\ last.arg.b = <<"5", "-", "2">>)
                   => last.ret.cmp = "Greater"
            /\ (last.arg.a = <<"5", "-", "2">> /\ last.arg.b = <<"4", "-", "9", "9", "9">>)
                   => last.ret.cmp = "Greater"

\* 5-2 was compared with 4-999 and is the greater, although 2 < 999.
C31_Witness ==
    /\ last.op = "cmp"
    /\ last.arg.a = <<"5", "-", "2">>
    /\ last.arg.b = <<"4", "-", "9", "9", "9">>
    /\ last.ret = [cmp |-> "Greater", rev |-> "Less"]
----------------------------------------------------------------------------

\* C32: the read operations never change the store.  A step of get (get_ref with a
\* clone), of GET or of keys leaves the key mapping, every value, every expiry and
\* every log's listener set as they were; a get of an entry that has expired answers
\* None and the entry stays; and an expired entry is changed by no step other than a
\* set of its key.
C32_ReadsLeaveStoreUnchanged ==
    [][ /\ last'.op \in {"get", "GET", "keys"} => data' = data
        /\ \A k \in DOMAIN data :
               IsExpired(data[k], now) =>
                   /\ (last'.op = "get" /\ last'.key = k) => last'.ret = None
                   /\ k \in DOMAIN data'
                   /\ data'[k] # data[k] => (last'.op \in {"set", "SET"} /\ last'.key = k)
      ]_vars

\* A get has answered None for a key whose expired entry is still in the mapping.
C32_Witness ==
    /\ last.op = "get"
    /\ last.ret = None
    /\ last.key \in DOMAIN data
    /\ IsExpired(data[last.key], now)
----------------------------------------------------------------------------

\* The listeners registered on the log of k whose Receiver is gone.
AbandonedIn(d, ch, k) == {l \in ListenersOf(d, k) : ~ch[l].open}

\* The step is the timeout of c's blocking read.
TimesOut(c) == TimedWait(c) /\ conn'[c].pc = "idle" /\ last'.ret = NullString

\* The step is the second half of c's insertion, with the reply of XADD.
Inserts(c) == conn[c].pc = "entry" /\ conn[c].call = "insert" /\ conn'[c].pc = "idle"

\* C33: a blocking read that times out sends no unregister: the store is as it was,
\* and the abandoned listeners of the log it named grow by at most its own one and
\* those of every other log not at all; only a timeout abandons a listener.  An
\* abandoned listener never makes a later insertion fail, block or be delayed: the
\* insertion can take the lock when it is free and can finish when it holds it, is
\* accepted exactly when its ID is above the log's top item, and then replies with its
\* ID and stores the item.  An abandoned listener is never counted as a delivery:
\* its channel stays closed and empty, and the insertion clears it from the log.
C33_AbandonedListenersAreInert ==
    [][\A c \in Conns :
          /\ TimesOut(c) =>
                /\ data' = data
                /\ \A k \in Keys :
                      AbandonedIn(data', chan', k) \ AbandonedIn(data, chan, k)
                          \subseteq (IF k = conn[c].cmd.key THEN {conn[c].tx} ELSE {})
          /\ (\E k \in Keys : AbandonedIn(data', chan', k) \ AbandonedIn(data, chan, k) # {})
                => \E w \in Conns : TimesOut(w)
          /\ (/\ conn[c].pc # "idle" /\ conn[c].call = "insert"
              /\ AbandonedIn(data, chan, conn[c].cmd.key) # {}) =>
                /\ (conn[c].pc = "lock" /\ lock = None) => ENABLED Acquire(c)
                /\ conn[c].pc = "held" => ENABLED StoreEntry(c)
                /\ conn[c].pc = "entry" => ENABLED XaddBody(c)
          /\ (Inserts(c) /\ AbandonedIn(data, chan, conn[c].cmd.key) # {}) =>
                LET key == conn[c].cmd.key
                    accepted == \/ DOMAIN data[key].value.items = {}
                                \/ LexLt(MaxOrFloor(data, key), conn[c].cmd.id)
                IN  /\ accepted <=> last'.ret = BulkString(conn[c].cmd.text)
                    /\ ~accepted => last'.ret.type = "SimpleError"
                    /\ accepted =>
                          /\ conn[c].cmd.id \in DOMAIN data'[key].value.items
                          /\ ListenersOf(data', key) = {}
                    /\ \A l \in AbandonedIn(data, chan, key) : chan'[l] = ClosedChan
                    /\ \A l \in DOMAIN chan :
                          chan'[l] # chan[l] =>
                              (l \in ListenersOf(data, key) /\ chan[l].open)
      ]_vars

\* Connection c2 timed out in a blocking read on k1; then c1 added an item to k1, with
\* c2's abandoned listener among those of the log, and got the item's ID as reply.
C33_Witness ==
    /\ last.op = "XADD" /\ last.arg.conn = "c1" /\ last.ret.type = "BulkString"
    /\ Tx("c2", 1) \in last.notified
    /\ chan[Tx("c2", 1)] = ClosedChan
    /\ conn["c2"].pc = "idle"
    /\ ListenersOf(data, last.key) = {}
----------------------------------------------------------------------------

\* Connection c waits in a blocking read without a timeout (BLOCK 0).
WaitsForever(c) == conn[c].pc = "wait" /\ conn[c].cmd.block = Some(0)

\* C34: a blocking read that waits without a timeout never replies with no data.  While
\* it waits and no item has been inserted into its log since it registered, its channel
\* is empty and it can neither receive nor time out; when it replies, an item has been
\* inserted since, and the reply is exactly that first item under its key.  A step of
\* another connection that is not a stored insertion into its log (SET, GET, KEYS,
\* XRANGE, a rejected XADD, any lock step) leaves the reader and its channel as
\* they were.
C34_BlockForeverRepliesOneItem ==
    [][\A c \in Conns :
          WaitsForever(c) =>
             /\ ~ENABLED XreadTimeout(c)
             /\ InsertedSince(c) = <<>> =>
                   /\ chan[conn[c].tx] = OpenChan
                   /\ ~ENABLED XreadRecv(c)
             /\ conn'[c] # conn[c] =>
                   /\ conn'[c].pc = "idle"
                   /\ InsertedSince(c) # <<>>
                   /\ last'.arg.conn = c
                   /\ last'.ret = ReplyOfInsertion(conn[c].cmd.key, InsertedSince(c)[1])
                   /\ Len(last'.ret.items) = 1
                   /\ Len(last'.ret.items[1].items[2].items) = 1
             /\ (conn'[c] = conn[c] /\ chan'[conn[c].tx] # chan[conn[c].tx]) =>
                   /\ last'.op = "XADD" /\ last'.key = conn[c].cmd.key
                   /\ last'.ret.type = "BulkString"
                   /\ chan[conn[c].tx] = OpenChan
      ]_vars

\* Connection c1 waited in XREAD BLOCK 0 on k1 and has replied with the item 0-2, the
\* one inserted while it waited; c2 has set the key k2 in the meantime or before.
C34_Witness ==
    /\ last.op = "XREAD" /\ last.arg.conn = "c1"
    /\ last.arg.cmd.block = Some(0)
    /\ conn["c1"] = [pc |-> "idle", blocks |-> 1]
    /\ last.ret.type = "Array"
    /\ HoldsText(data, "k2")
    /\ chan[Tx("c1", 1)] = ClosedChan
----------------------------------------------------------------------------

\* C35: every error raised while a decoded command is executed (no I/O error occurs
\* in the command specification) is answered with exactly one simple error that names
\* the upper-cased command, and the connection stays open; also when the error is
\* wrapped with a context label, as for KEYS with a pattern other than `*`.
C35_EveryCommandErrorIsReplied ==
    [][LET c == last'.arg.conn
           cmd == last'.arg.cmd
       IN  (FaultKinds(cmd, data, now) # {} \/ OtherFault(cmd)) =>
                /\ Len(last'.ret) = 1
                /\ last'.ret[1].type = "SimpleError"
                /\ last'.ret[1].message.cmd = to_ascii_uppercase(cmd.name)
                /\ conn'[c].pc = "idle"
      ]_vars
----------------------------------------------------------------------------

\* C36: a failed insertion leaves the whole store unchanged, not only the log.  An XADD
\* that is not answered with the ID of a stored item changes nothing in the mapping;
\* when its key had no entry, none is made: keys does not list the key and get reports
\* it absent.
C36_FailedInsertLeavesStoreUnchanged ==
    [][(last'.op = "XADD" /\ last'.ret.type # "BulkString") =>
          /\ data' = data
          /\ last'.key \notin DOMAIN data =>
                /\ last'.key \notin DataStore_keys(data')
                /\ DataStore_get(data', now, last'.key) = None
      ]_vars
----------------------------------------------------------------------------

\* C37: in XREAD a key that is missing or whose entry has expired is handled like a log
\* with no item after the cursor: it contributes nothing to the reply, so an XREAD
\* without BLOCK over such a key replies with the null reply.
C37_AbsentKeyReadsAsEmptyLog ==
    (/\ last.op = "XREAD"
     /\ (last.key \notin DOMAIN data \/ IsExpired(data[last.key], now)))
        => last.ret = NullString
----------------------------------------------------------------------------

\* The step is a round of run_int on a decoded command array.
Dispatched == last'.op \notin {"send", "arrive", "close", "read_command"}

\* C38: for every decoded command array, the empty one and CONFIG without a subcommand
\* included, the dispatcher either writes exactly one reply and leaves the connection
\* open, or writes nothing and ends the connection through the error path.  No
\* command makes the task panic.
C38_DispatchRepliesOrFails ==
    [][Dispatched =>
          LET c == last'.arg.conn IN
          /\ \A i \in 1..Len(last'.ret) : last'.ret[i] # Panic
          /\ \/ Len(last'.ret) = 1 /\ conn'[c].pc = "idle"
             \/ Len(last'.ret) = 0 /\ conn'[c].pc = "closed"
      ]_vars
----------------------------------------------------------------------------

\* C39: the PSYNC step accepts only a simple string that starts with FULLRESYNC and
\* carries a replication id and a numeric offset, and then records both; when the
\* reply is rejected (another type of reply, no id, no offset or an offset that is
\* not a number) the recorded replication id and offset both stay as they were.
C39_RejectedPsyncRecordsNothing ==
    [][repl.pc = "psync" =>
          LET reply == repl'.got[Len(repl'.got)] IN
          /\ repl'.pc = "done" =>
                /\ reply.ok /\ reply.val.type = "SimpleString"
                /\ LET parts == split_ascii_whitespace(reply.val.str) IN
                   /\ Len(parts) >= 3 /\ parts[1] = Text_FULLRESYNC
                   /\ repl'.replication_id = Some(parts[2])
                   /\ isize_parse(parts[3]) = Ok(repl'.replication_offset)
          /\ repl'.pc = "failed" =>
                /\ repl'.replication_id = repl.replication_id
                /\ repl'.replication_offset = repl.replication_offset
      ]_vars
----------------------------------------------------------------------------

\* The step is the error reply of c's XREAD with BLOCK.
BlockingReadFails(c) ==
    /\ conn[c].pc # "idle" /\ conn[c].cmd.op = "XREAD" /\ conn[c].cmd.block.some
    /\ conn'[c].pc = "idle"
    /\ last'.ret.type = "SimpleError"

\* C40: an XREAD with BLOCK that ends with an error reply registers no listener.  When
\* a key it names holds a value that is not a log, then after the error reply the
\* listener of that read is registered on no log, and no step of the read has made
\* an entry for a key.
C40_FailedBlockingReadRegistersNothing ==
    [][\A c \in Conns :
          /\ BlockingReadFails(c) =>
                \A k \in Keys : conn[c].tx \notin ListenersOf(data', k)
          /\ (/\ conn[c].pc # "idle" /\ conn[c].cmd.op = "XREAD"
              /\ conn'[c] # conn[c]) => DOMAIN data' = DOMAIN data
      ]_vars
====
